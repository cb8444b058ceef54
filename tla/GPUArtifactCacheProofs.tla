----------------------- MODULE GPUArtifactCacheProofs -----------------------
(***************************************************************************)
(* The cache of artifacts, for any number of compilations, packages and    *)
(* edits: types, what is stored under a key, and what is served.           *)
(***************************************************************************)
EXTENDS GPUArtifactCache, TLAPS

\* How far a compilation has come, and what it has read by then.
Controlled(c) ==
  /\ job[c].pc \in {"compiler", "list", "packages"} /\ job[c].built # Blank =>
       Complete(job[c].built) /\ Complete(job[c].first)
  /\ job[c].pc = "build" => job[c].hashed = Blank
  /\ job[c].pc # "idle" /\ job[c].first # Blank => Complete(job[c].first)
  /\ job[c].pc \in {"create", "write", "rename"} =>
       /\ Complete(job[c].built) /\ Complete(job[c].first)
       /\ job[c].hashed = job[c].first
  /\ job[c].pc = "rename" => disk[c] = FileOf(c, "whole")

Inv == TypeOK /\ \A c \in Compilers : Controlled(c)

Busy == Job \ {Idle}

LEMMA BlankType == Blank \in Partial /\ (\A i \in Inputs : i \in Partial)
BY DEF Blank, Partial, Inputs

LEMMA CompleteType == \A i \in Partial : Complete(i) => i \in Inputs
BY CacheAssumption DEF Complete, Partial, Inputs, None

\* Entries and temporary files have different names.
LEMMA PathsDiffer == \A c \in Compilers, k \in Keys : c # k
BY CacheAssumption DEF Keys, Inputs

LEMMA JobType ==
  ASSUME TypeOK, NEW c \in Compilers, job[c].pc # "idle"
  PROVE  /\ job[c].request \in Requests /\ job[c].since \in Inputs
         /\ job[c].hashed \in Partial /\ job[c].first \in Partial
         /\ job[c].built \in Partial
         /\ job[c] \in [pc : {"compiler", "list", "packages", "build", "create",
                              "write", "rename"},
                        request : Requests, since : Inputs, hashed : Partial,
                        first : Partial, built : Partial]
<1>1. job[c] \in Job
  BY DEF TypeOK
<1>2. job[c] # Idle
  BY DEF Idle
<1> QED BY <1>1, <1>2 DEF Job

\* A step of compilation c that touches its own file and the entry of a key.
LEMMA StepOfOne ==
  ASSUME Inv, NEW c \in Compilers, NEW j \in Job, Becomes(c, j),
         content' = content, edits' = edits, calls' \in 0..MaxCalls,
         answer' \in Answer, disk' \in [Paths -> File],
         \A d \in Compilers \ {c} : disk'[d] = disk[d],
         Controlled(c)'
  PROVE  Inv'
<1>1. /\ job' = [job EXCEPT ![c] = j] /\ job \in [Compilers -> Job]
  BY DEF Becomes, Inv, TypeOK
<1>2. TypeOK'
  BY <1>1 DEF Inv, TypeOK
<1>3. ASSUME NEW d \in Compilers PROVE Controlled(d)'
  <2>1. CASE d = c
    BY <2>1
  <2>2. CASE d # c
    <3>1. job'[d] = job[d] /\ disk'[d] = disk[d]
      BY <1>1, <2>2
    <3> QED BY <3>1 DEF Inv, Controlled, FileOf
  <2> QED BY <2>1, <2>2
<1> QED BY <1>2, <1>3 DEF Inv

LEMMA InitInv == Init => Inv
<1> SUFFICES ASSUME Init PROVE Inv
  OBVIOUS
<1>1. TypeOK
  BY CacheAssumption DEF Init, TypeOK, Inputs, File, Job, Answer
<1>2. \A c \in Compilers : Controlled(c)
  BY DEF Init, Controlled, Idle
<1> QED BY <1>1, <1>2 DEF Inv

\* Returning the artifact of a completed build.
LEMMA ReturnInv ==
  ASSUME Inv, NEW c \in Compilers, job[c].pc # "idle",
         NEW cached \in BOOLEAN, NEW part \in Parts, NEW built \in Inputs,
         Return(c, cached, part, built), disk' \in [Paths -> File],
         \A d \in Compilers \ {c} : disk'[d] = disk[d]
  PROVE  Inv'
<1>1. TypeOK
  BY DEF Inv
<1>2. answer' \in Answer
  BY <1>1, JobType DEF Return, Answer
<1>3. Idle \in Job /\ Becomes(c, Idle)
  BY DEF Job, Return
<1>4. job'[c] = Idle
  BY <1>1, <1>3 DEF TypeOK, Becomes
<1>5. Controlled(c)'
  BY <1>4 DEF Controlled, Idle
<1> QED BY <1>1, <1>2, <1>3, <1>5, StepOfOne DEF Return, TypeOK

\* A step that reads and decides, but neither writes nor returns.
LEMMA SilentInv ==
  ASSUME Inv, NEW c \in Compilers, NEW j \in Job, Becomes(c, j),
         content' = content, edits' = edits, calls' \in 0..MaxCalls,
         answer' \in Answer, disk' = disk,
         job'[c] = j => Controlled(c)'
  PROVE  Inv'
<1>1. job'[c] = j
  BY DEF Becomes, Inv, TypeOK
<1> QED BY <1>1, StepOfOne DEF Inv, TypeOK

LEMMA CompileInv ==
  ASSUME Inv, NEW c \in Compilers, Compile(c)
  PROVE  Inv'
<1> DEFINE j == job[c]
<1>0. /\ TypeOK /\ Controlled(c) /\ Nothing \in Answer /\ Idle \in Job
      /\ [what |-> "error"] \in Answer /\ calls \in 0..MaxCalls
  BY DEF Inv, TypeOK, Answer, Job
<1>1. ASSUME NEW r \in Requests, Request(c, r) PROVE Inv'
  <2>1. PICK pc \in {"compiler", "build"} :
          Becomes(c, [pc |-> pc, request |-> r, since |-> content,
                      hashed |-> Blank, first |-> Blank, built |-> Blank])
    BY <1>1 DEF Request
  <2> DEFINE new == [pc |-> pc, request |-> r, since |-> content,
                     hashed |-> Blank, first |-> Blank, built |-> Blank]
  <2>2. new \in Job
    BY <1>0, BlankType DEF Job, TypeOK
  <2>3. job'[c] = new => Controlled(c)'
    BY DEF Controlled
  <2>4. calls' \in 0..MaxCalls
    BY <1>0, <1>1, CacheAssumption DEF Request
  <2> HIDE DEF new
  <2> QED BY <1>0, <1>1, <2>1, <2>2, <2>3, <2>4, SilentInv DEF Request, new
<1>2. ASSUME NEW f \in Files, HashFile(c, f) PROVE Inv'
  <2> DEFINE new == [j EXCEPT !.hashed[f] = content[f],
                              !.pc = IF f = 0 THEN "list" ELSE @]
  <2>1. j.pc \in {"compiler", "packages"}
    BY <1>2 DEF HashFile, NextToHash
  <2>2. new \in Job
    <3>1. content[f] \in Versions
      BY <1>0 DEF TypeOK, Inputs
    <3>2. [j.hashed EXCEPT ![f] = content[f]] \in Partial
      BY <1>0, <2>1, <3>1, JobType DEF Partial
    <3> QED BY <1>0, <2>1, <3>2, JobType DEF Job
  <2>3. /\ new.built = j.built /\ new.first = j.first
        /\ new.pc \in {"list", "compiler", "packages"}
    BY <1>0, <2>1, JobType
  <2>4. f = 0 \/ j.pc = "packages"
    BY <1>2 DEF HashFile, NextToHash
  <2>5. job'[c] = new => Controlled(c)'
    <3> HIDE DEF new
    <3> QED BY <1>0, <2>1, <2>3 DEF Controlled
  <2> QED BY <1>0, <1>2, <2>2, <2>5, SilentInv DEF HashFile, Silent
<1>3. CASE ListPackages(c)
  <2> DEFINE h   == [f \in Files |-> IF f # 0 /\ content[f] = Missing
                                       THEN Missing ELSE j.hashed[f]]
             new == [[j EXCEPT !.pc = "packages"] EXCEPT !.hashed = h]
  <2>1. j.pc = "list"
    BY <1>3 DEF ListPackages
  <2>2. h \in Partial
    BY <1>0, <2>1, JobType, CacheAssumption DEF Partial
  <2>3. new \in Job
    BY <1>0, <2>1, <2>2, JobType DEF Job
  <2>4. new.built = j.built /\ new.first = j.first /\ new.pc = "packages"
    BY <1>0, <2>1, JobType
  <2>5. Becomes(c, new)
    BY <1>0, <1>3, <2>1, JobType DEF ListPackages, Goto
  <2>6. job'[c] = new => Controlled(c)'
    <3> HIDE DEF new
    <3> QED BY <1>0, <2>1, <2>4 DEF Controlled
  <2> HIDE DEF new
  <2> QED BY <1>0, <1>3, <2>3, <2>5, <2>6, SilentInv DEF ListPackages, Silent
<1>4. CASE FingerprintFails(c)
  <2>1. j.pc \in {"compiler", "list", "packages"}
    BY <1>4 DEF FingerprintFails, NextToHash
  <2>2. CASE j.built = Blank /\ Silent
             /\ Becomes(c, [Goto(c, "build") EXCEPT !.hashed = Blank])
    <3> DEFINE new == [[j EXCEPT !.pc = "build"] EXCEPT !.hashed = Blank]
    <3>1. new \in Job
      BY <1>0, <2>1, JobType, BlankType DEF Job
    <3>2. new.first = j.first /\ new.pc = "build" /\ new.hashed = Blank
      BY <1>0, <2>1, JobType
    <3>3. Becomes(c, new)
      BY <2>2 DEF Goto
    <3>4. j.first # Blank => Complete(j.first)
      BY <1>0, <2>1 DEF Controlled
    <3>5. job'[c] = new => Controlled(c)'
      <4> HIDE DEF new
      <4> QED BY <3>2, <3>4 DEF Controlled
    <3> HIDE DEF new
    <3> QED BY <1>0, <1>4, <2>2, <3>1, <3>3, <3>5, SilentInv
            DEF FingerprintFails, Silent
  <2>3. CASE j.built # Blank /\ ReturnOwn(c)
    <3>1. j.built \in Inputs
      BY <1>0, <2>1, <2>3, JobType, CompleteType DEF Controlled
    <3> QED BY <1>0, <1>4, <2>1, <2>3, <3>1, ReturnInv
            DEF FingerprintFails, ReturnOwn, Parts, TypeOK
  <2> QED BY <1>4, <2>2, <2>3 DEF FingerprintFails
<1>5. CASE Lookup(c)
  <2>1. /\ j.pc = "packages" /\ Complete(j.hashed)
        /\ j.hashed \in Partial /\ j.hashed \in Inputs
    BY <1>0, <1>5, JobType, CompleteType DEF Lookup, Fingerprinted
  <2> DEFINE k == KeyOf(c, j.hashed)
  <2>2. k \in Keys /\ disk[k] \in File
    BY <1>0, <2>1, JobType DEF KeyOf, Keys, TypeOK, Paths
  <2>3. CASE Readable(disk[k]) /\ Return(c, TRUE, disk[k].part, disk[k].built)
    <3>1. disk[k].part \in Parts /\ disk[k].built \in Inputs
      BY <2>2, <2>3 DEF Readable, File, Absent
    <3> QED BY <1>0, <1>5, <2>1, <2>3, <3>1, ReturnInv DEF Lookup, TypeOK
  <2>4. CASE /\ Silent
             /\ Becomes(c, [Goto(c, "build") EXCEPT !.first = job[c].hashed,
                                                    !.hashed = Blank])
    <3> DEFINE new == [[j EXCEPT !.pc = "build"] EXCEPT !.first = j.hashed,
                                                        !.hashed = Blank]
    <3>1. new \in Job
      BY <1>0, <2>1, JobType, BlankType DEF Job
    <3>2. new.first = j.hashed /\ new.pc = "build" /\ new.hashed = Blank
      BY <1>0, <2>1, JobType
    <3>3. Becomes(c, new)
      BY <2>4 DEF Goto
    <3>4. job'[c] = new => Controlled(c)'
      <4> HIDE DEF new
      <4> QED BY <2>1, <3>2 DEF Controlled
    <3> HIDE DEF new
    <3> QED BY <1>0, <1>5, <2>4, <3>1, <3>3, <3>4, SilentInv DEF Lookup, Silent
  <2> QED BY <1>5, <2>3, <2>4 DEF Lookup
<1>6. ASSUME NEW f \in Files, ReadInput(c, f) PROVE Inv'
  <2> DEFINE new == [j EXCEPT !.built[f] = content[f]]
  <2>1. j.pc = "build"
    BY <1>6 DEF ReadInput
  <2>2. [j.built EXCEPT ![f] = content[f]] \in Partial
    BY <1>0, <2>1, JobType DEF Partial, TypeOK, Inputs
  <2>3. new \in Job
    BY <1>0, <2>1, <2>2, JobType DEF Job
  <2>4. new.pc = "build" /\ new.hashed = j.hashed /\ new.first = j.first
    BY <1>0, <2>1, JobType
  <2>5. job'[c] = new => Controlled(c)'
    <3> HIDE DEF new
    <3> QED BY <1>0, <2>1, <2>4 DEF Controlled
  <2> QED BY <1>0, <1>6, <2>3, <2>5, SilentInv DEF ReadInput, Silent
<1>7. CASE BuildFails(c)
  <2>1. job'[c] = Idle => Controlled(c)'
    BY DEF Controlled, Idle
  <2> QED BY <1>0, <1>7, <2>1, SilentInv DEF BuildFails
<1>8. CASE BuildSucceeds(c)
  <2>1. j.pc = "build" /\ Complete(j.built) /\ j.built \in Inputs
    BY <1>0, <1>8, JobType, CompleteType DEF BuildSucceeds
  <2>2. CASE j.first # Blank /\ Becomes(c, Goto(c, "compiler")) /\ Silent
    <3> DEFINE new == [j EXCEPT !.pc = "compiler"]
    <3>1. new \in Job
      BY <1>0, <2>1, JobType DEF Job
    <3>2. new.built = j.built /\ new.first = j.first /\ new.pc = "compiler"
      BY <1>0, <2>1, JobType
    <3>3. job'[c] = new => Controlled(c)'
      <4> HIDE DEF new
      <4> QED BY <1>0, <2>1, <2>2, <3>2 DEF Controlled
    <3> QED BY <1>0, <1>8, <2>2, <3>1, <3>3, SilentInv
            DEF BuildSucceeds, Silent, Goto
  <2>3. CASE ReturnOwn(c)
    BY <1>0, <1>8, <2>1, <2>3, ReturnInv
    DEF BuildSucceeds, ReturnOwn, Parts, TypeOK
  <2> QED BY <1>8, <2>2, <2>3 DEF BuildSucceeds
<1>9. CASE Recheck(c)
  <2>1. /\ j.pc = "packages" /\ j.built # Blank
        /\ Complete(j.built) /\ Complete(j.first) /\ j.built \in Inputs
    BY <1>0, <1>9, JobType, CompleteType
    DEF Recheck, Fingerprinted, Controlled
  <2>2. CASE Unchanged(c) /\ Becomes(c, Goto(c, "create")) /\ Silent
    <3> DEFINE new == [j EXCEPT !.pc = "create"]
    <3>1. new \in Job
      BY <1>0, <2>1, JobType DEF Job
    <3>2. /\ new.built = j.built /\ new.first = j.first /\ new.pc = "create"
          /\ new.hashed = j.hashed
      BY <1>0, <2>1, JobType
    <3>3. job'[c] = new => Controlled(c)'
      <4> HIDE DEF new
      <4> QED BY <1>0, <2>1, <2>2, <3>2 DEF Controlled, Unchanged
    <3> QED BY <1>0, <1>9, <2>2, <3>1, <3>3, SilentInv DEF Recheck, Silent, Goto
  <2>3. CASE ReturnOwn(c)
    BY <1>0, <1>9, <2>1, <2>3, ReturnInv DEF Recheck, ReturnOwn, Parts, TypeOK
  <2> QED BY <1>9, <2>2, <2>3 DEF Recheck
<1>a. CASE j.pc \in {"create", "write", "rename"}
  <2> SUFFICES ASSUME \/ CreateTemporary(c) \/ WriteTemporary(c)
                      \/ Rename(c) \/ WriteFails(c)
               PROVE  Inv'
    BY <1>1, <1>2, <1>3, <1>4, <1>5, <1>6, <1>7, <1>8, <1>9 DEF Compile
  <2>1. /\ Complete(j.built) /\ Complete(j.first) /\ j.hashed = j.first
        /\ j.built \in Inputs /\ j.first \in Inputs
        /\ j.request \in Requests
    BY <1>0, <1>a, JobType, CompleteType DEF Controlled
  <2>2. /\ \A part \in Parts : FileOf(c, part) \in File
        /\ c \in Paths /\ Absent \in File /\ disk \in [Paths -> File]
        /\ KeyOf(c, j.first) \in Keys /\ Keys \subseteq Paths
    BY <1>0, <2>1 DEF FileOf, File, Paths, TypeOK, KeyOf, Keys
  <2>3. \A d \in Compilers : d # KeyOf(c, j.first)
    BY <2>2, PathsDiffer
  <2> DEFINE new(pc) == [j EXCEPT !.pc = pc]
  <2>4. \A pc \in {"write", "rename"} :
          /\ new(pc) \in Job /\ new(pc).pc = pc /\ new(pc).built = j.built
          /\ new(pc).first = j.first /\ new(pc).hashed = j.hashed
          /\ new(pc).request = j.request
    BY <1>0, <1>a, JobType DEF Job
  <2>5. CASE CreateTemporary(c)
    <3>1. PICK part \in {"header", "object"} :
            disk' = [disk EXCEPT ![c] = FileOf(c, part)]
      BY <2>5 DEF CreateTemporary, TemporaryPath
    <3>2. disk' \in [Paths -> File] /\ \A d \in Compilers \ {c} : disk'[d] = disk[d]
      BY <2>2, <3>1 DEF Parts, Paths
    <3>3. Becomes(c, new("write")) /\ Silent
      BY <2>5 DEF CreateTemporary, Goto
    <3>4. job'[c] = new("write")
      BY <1>0, <3>3 DEF Becomes, TypeOK
    <3>5. Controlled(c)'
      <4> HIDE DEF new
      <4> QED BY <2>1, <2>4, <3>4 DEF Controlled
    <3> HIDE DEF new
    <3> QED BY <1>0, <2>4, <3>2, <3>3, <3>5, StepOfOne DEF Silent
  <2>6. CASE WriteTemporary(c)
    <3>1. disk' = [disk EXCEPT ![c] = FileOf(c, "whole")]
      BY <2>6 DEF WriteTemporary, TemporaryPath
    <3>2. disk' \in [Paths -> File] /\ \A d \in Compilers \ {c} : disk'[d] = disk[d]
      BY <2>2, <3>1 DEF Parts, Paths
    <3>3. Becomes(c, new("rename")) /\ Silent
      BY <2>6 DEF WriteTemporary, Goto
    <3>4. job'[c] = new("rename")
      BY <1>0, <3>3 DEF Becomes, TypeOK
    <3>5. disk'[c] = FileOf(c, "whole")'
      <4> HIDE DEF new
      <4> QED BY <2>2, <2>4, <3>1, <3>4 DEF FileOf
    <3>6. Controlled(c)'
      <4> HIDE DEF new
      <4> QED BY <2>1, <2>4, <3>4, <3>5 DEF Controlled
    <3> HIDE DEF new
    <3> QED BY <1>0, <2>4, <3>2, <3>3, <3>6, StepOfOne DEF Silent
  <2>7. CASE Rename(c)
    <3>1. disk' = [disk EXCEPT ![c] = Absent, ![KeyOf(c, j.first)] = disk[c]]
      BY <2>7 DEF Rename, TemporaryPath
    <3>2. disk' \in [Paths -> File] /\ \A d \in Compilers \ {c} : disk'[d] = disk[d]
      BY <2>2, <2>3, <3>1 DEF Paths
    <3> QED BY <1>a, <2>1, <2>7, <3>2, ReturnInv DEF Rename, ReturnOwn, Parts
  <2>8. CASE WriteFails(c)
    <3>1. disk' = [disk EXCEPT ![c] = Absent]
      BY <2>8 DEF WriteFails, TemporaryPath
    <3>2. disk' \in [Paths -> File] /\ \A d \in Compilers \ {c} : disk'[d] = disk[d]
      BY <2>2, <3>1 DEF Paths
    <3> QED BY <1>a, <2>1, <2>8, <3>2, ReturnInv DEF WriteFails, ReturnOwn, Parts
  <2> QED BY <2>5, <2>6, <2>7, <2>8
<1> QED
  BY <1>1, <1>2, <1>3, <1>4, <1>5, <1>6, <1>7, <1>8, <1>9, <1>a
  DEF Compile, CreateTemporary, WriteTemporary, Rename, WriteFails

LEMMA NextInv == Inv /\ [Next]_vars => Inv'
<1> SUFFICES ASSUME Inv, [Next]_vars PROVE Inv'
  OBVIOUS
<1>0. TypeOK /\ Nothing \in Answer /\ Idle \in Job /\ Absent \in File
  BY DEF Inv, Answer, Job, File
<1>1. ASSUME NEW f \in Files, Edit(f) PROVE Inv'
  <2>1. content' \in Inputs /\ edits' \in 0..MaxEdits
    BY <1>0, <1>1, CacheAssumption DEF Edit, TypeOK, Inputs
  <2> QED BY <1>0, <1>1, <2>1 DEF Edit, Inv, TypeOK, Controlled, FileOf
<1>2. CASE LosePower
  <2>1. PICK k \in Keys, part \in {"header", "object"} :
          /\ disk[k].part = "whole"
          /\ disk' = [p \in Paths |-> IF p \in Compilers THEN Absent
                                      ELSE IF p = k THEN [disk[k] EXCEPT !.part = part]
                                      ELSE disk[p]]
    BY <1>2 DEF LosePower
  <2>2. [disk[k] EXCEPT !.part = part] \in File
    <3>1. disk[k] \in File
      BY <1>0 DEF TypeOK, Paths
    <3> QED BY <2>1, <3>1 DEF File, Absent, Parts
  <2>3. disk' \in [Paths -> File]
    BY <1>0, <2>1, <2>2 DEF TypeOK
  <2>4. job' = [c \in Compilers |-> Idle]
    BY <1>2 DEF LosePower
  <2>5. \A c \in Compilers : Controlled(c)'
    BY <2>4 DEF Controlled, Idle
  <2> QED BY <1>0, <1>2, <2>3, <2>4, <2>5 DEF LosePower, Inv, TypeOK
<1>3. ASSUME NEW c \in Compilers, Kill(c) PROVE Inv'
  <2>1. Becomes(c, Idle) /\ job'[c] = Idle
    BY <1>0, <1>3 DEF Kill, Becomes, TypeOK
  <2>2. Controlled(c)'
    BY <2>1 DEF Controlled, Idle
  <2>3. /\ disk' \in [Paths -> File]
        /\ \A d \in Compilers \ {c} : disk'[d] = disk[d]
    BY <1>0, <1>3 DEF Kill, TypeOK, Paths
  <2> QED BY <1>0, <1>3, <2>1, <2>2, <2>3, StepOfOne DEF Kill, TypeOK
<1>4. ASSUME NEW c \in Compilers, Compile(c) PROVE Inv'
  BY <1>4, CompileInv
<1>5. CASE UNCHANGED vars
  BY <1>5 DEF vars, Inv, TypeOK, Controlled, FileOf
<1> QED BY <1>1, <1>2, <1>3, <1>4, <1>5 DEF Next, Environment

LEMMA Invariance == Spec => []Inv
  BY InitInv, NextInv, PTL DEF Spec

\* Contents, entries, compilations and answers have their shapes; nothing is
\* stored or returned that was not built to the end.
THEOREM TypeCorrectness == Spec => []TypeOK
<1>1. Inv => TypeOK
  BY DEF Inv
<1> QED BY <1>1, Invariance, PTL

-----------------------------------------------------------------------------
(* If no file gets contents back that it had before, contents are a clock. *)

\* What a compilation has read lies between the request and now, and what it
\* has read later is not older.
InOrder(c) ==
  job[c].pc # "idle" =>
    \A f \in Files :
      /\ job[c].since[f] <= content[f]
      /\ job[c].hashed[f] # None => /\ job[c].since[f] <= job[c].hashed[f]
                                    /\ job[c].hashed[f] <= content[f]
      /\ job[c].first[f] # None => /\ job[c].since[f] <= job[c].first[f]
                                   /\ job[c].first[f] <= content[f]
      /\ job[c].built[f] # None => /\ job[c].since[f] <= job[c].built[f]
                                   /\ job[c].built[f] <= content[f]
      /\ job[c].first[f] # None /\ job[c].built[f] # None =>
           job[c].first[f] <= job[c].built[f]
      /\ job[c].built[f] # None /\ job[c].hashed[f] # None =>
           job[c].built[f] <= job[c].hashed[f]

AllInOrder == \A c \in Compilers : InOrder(c)

LEMMA ContentsAreNumbers ==
  \A f \in Files : /\ \A i \in Inputs : i[f] \in Nat /\ i[f] \in Int
                   /\ \A i \in Partial : i[f] \in Int
<1>1. \A v \in Versions \union {None} : v \in Int
  BY CacheAssumption DEF None
<1>2. \A v \in Versions : v \in Nat /\ v \in Int
  BY CacheAssumption
<1>3. ASSUME NEW f \in Files, NEW i \in Inputs PROVE i[f] \in Versions
  BY DEF Inputs
<1>4. ASSUME NEW f \in Files, NEW i \in Partial
      PROVE  i[f] \in Versions \union {None}
  BY DEF Partial
<1> QED BY <1>1, <1>2, <1>3, <1>4

LEMMA OrderInit == Init => AllInOrder
BY DEF Init, AllInOrder, InOrder, Idle

\* Contents only grow, whatever happens.
LEMMA ContentGrows ==
  ASSUME ~Reverts, Inv, [Next]_vars
  PROVE  \A f \in Files : /\ content[f] \in Nat /\ content'[f] \in Nat
                          /\ content[f] <= content'[f]
<1>1. \A f \in Files : content[f] \in Nat
  BY CacheAssumption DEF Inv, TypeOK, Inputs
<1>2. CASE content' = content
  BY <1>1, <1>2
<1>3. ASSUME NEW g \in Files, Edit(g)
      PROVE  \A f \in Files : content'[f] \in Nat /\ content[f] <= content'[f]
  <2>1. PICK v \in Versions : v > content[g] /\ content' = [content EXCEPT ![g] = v]
    BY <1>3 DEF Edit
  <2>2. v \in Nat /\ content \in [Files -> Versions]
    BY CacheAssumption DEF Inv, TypeOK, Inputs
  <2> QED BY <1>1, <2>1, <2>2
<1> QED
  BY <1>1, <1>2, <1>3
  DEF Next, Environment, Compile, LosePower, Kill, Request, HashFile,
      ListPackages, FingerprintFails, Lookup, ReadInput, BuildFails,
      BuildSucceeds, Recheck, CreateTemporary, WriteTemporary, Rename,
      WriteFails, Silent, ReturnOwn, Return, vars

\* A compilation that does not move stays in order.
LEMMA OrderKept ==
  ASSUME ~Reverts, Inv, AllInOrder, [Next]_vars, NEW c \in Compilers,
         job'[c] = job[c]
  PROVE  InOrder(c)'
<1>1. CASE job[c].pc = "idle"
  BY <1>1 DEF InOrder
<1>2. CASE job[c].pc # "idle"
  <2>1. /\ job[c].since \in Inputs /\ job[c].hashed \in Partial
        /\ job[c].first \in Partial /\ job[c].built \in Partial
    BY <1>2, JobType DEF Inv
  <2>2. \A f \in Files :
          /\ job[c].since[f] \in Int /\ job[c].hashed[f] \in Int
          /\ job[c].first[f] \in Int /\ job[c].built[f] \in Int
    BY <2>1, ContentsAreNumbers
  <2>3. InOrder(c)
    BY DEF AllInOrder
  <2> QED BY <1>2, <2>2, <2>3, ContentGrows DEF InOrder
<1> QED BY <1>1, <1>2

\* A step of one compilation that leaves it in order.
LEMMA OrderStep ==
  ASSUME ~Reverts, Inv, AllInOrder, [Next]_vars, NEW c \in Compilers, NEW j,
         Becomes(c, j), job'[c] = j => InOrder(c)'
  PROVE  AllInOrder'
<1>1. job'[c] = j /\ \A d \in Compilers \ {c} : job'[d] = job[d]
  BY DEF Becomes, Inv, TypeOK
<1> QED BY <1>1, OrderKept DEF AllInOrder

LEMMA IdleInOrder ==
  ASSUME ~Reverts, Inv, AllInOrder, [Next]_vars, NEW c \in Compilers,
         Becomes(c, Idle)
  PROVE  AllInOrder'
<1>1. job'[c] = Idle => InOrder(c)'
  BY DEF InOrder, Idle
<1> QED BY <1>1, OrderStep

LEMMA OrderNext ==
  ASSUME ~Reverts
  PROVE  Inv /\ AllInOrder /\ [Next]_vars => AllInOrder'
<1> SUFFICES ASSUME Inv, AllInOrder, [Next]_vars PROVE AllInOrder'
  OBVIOUS
<1>1. CASE job' = job
  BY <1>1, OrderKept DEF AllInOrder
<1>2. CASE job' = [c \in Compilers |-> Idle]
  BY <1>2 DEF AllInOrder, InOrder, Idle
<1>3. ASSUME NEW c \in Compilers, Becomes(c, Idle) PROVE AllInOrder'
  BY <1>3, IdleInOrder
<1>4. ASSUME NEW c \in Compilers, Compile(c), content' = content,
             ~Becomes(c, Idle)
      PROVE  AllInOrder'
  <2> DEFINE j == job[c]
  <2>0. /\ TypeOK /\ InOrder(c) /\ Controlled(c)
        /\ \A f \in Files : content[f] \in Int
    BY ContentsAreNumbers DEF AllInOrder, Inv, TypeOK
  <2>a. j.pc # "idle" =>
          \A f \in Files : /\ j.since[f] \in Int /\ j.hashed[f] \in Int
                           /\ j.first[f] \in Int /\ j.built[f] \in Int
    BY <2>0, JobType, ContentsAreNumbers
  <2>1. ASSUME NEW r \in Requests, Request(c, r) PROVE AllInOrder'
    <3>1. PICK pc \in {"compiler", "build"} :
            Becomes(c, [pc |-> pc, request |-> r, since |-> content,
                        hashed |-> Blank, first |-> Blank, built |-> Blank])
      BY <2>1 DEF Request
    <3> DEFINE new == [pc |-> pc, request |-> r, since |-> content,
                       hashed |-> Blank, first |-> Blank, built |-> Blank]
    <3>2. job'[c] = new => InOrder(c)'
      BY <1>4, <2>0 DEF InOrder, Blank
    <3> QED BY <3>1, <3>2, OrderStep
  <2>2. ASSUME NEW f \in Files, HashFile(c, f) PROVE AllInOrder'
    <3> DEFINE new == [j EXCEPT !.hashed[f] = content[f],
                                !.pc = IF f = 0 THEN "list" ELSE @]
    <3>1. j.pc \in {"compiler", "packages"} /\ j.pc # "idle"
      BY <2>2 DEF HashFile, NextToHash
    <3>2. /\ new.since = j.since /\ new.first = j.first /\ new.built = j.built
          /\ new.hashed = [j.hashed EXCEPT ![f] = content[f]]
      BY <2>0, <3>1, JobType
    <3>3. \A g \in Files : new.hashed[g] = IF g = f THEN content[f] ELSE j.hashed[g]
      BY <2>0, <3>1, <3>2, JobType DEF Partial
    <3>4. job'[c] = new => InOrder(c)'
      <4> HIDE DEF new
      <4>1. ASSUME job'[c] = new, NEW g \in Files
            PROVE  new.hashed[g] # None => /\ new.since[g] <= new.hashed[g]
                                           /\ new.hashed[g] <= content[g]
                                           /\ new.built[g] # None =>
                                                new.built[g] <= new.hashed[g]
        BY <2>0, <2>a, <3>1, <3>2, <3>3 DEF InOrder
      <4> QED BY <1>4, <2>0, <3>1, <3>2, <4>1 DEF InOrder
    <3> QED BY <2>2, <3>4, OrderStep DEF HashFile
  <2>3. CASE ListPackages(c)
    <3> DEFINE h   == [f \in Files |-> IF f # 0 /\ content[f] = Missing
                                         THEN Missing ELSE j.hashed[f]]
               new == [[j EXCEPT !.pc = "packages"] EXCEPT !.hashed = h]
    <3>1. j.pc = "list"
      BY <2>3 DEF ListPackages
    <3>2. /\ new.since = j.since /\ new.first = j.first /\ new.built = j.built
          /\ new.hashed = h
      BY <2>0, <3>1, JobType
    <3>3. Becomes(c, new)
      BY <2>0, <2>3, <3>1, JobType DEF ListPackages, Goto
    <3>4. \A g \in Files : h[g] \in {content[g], j.hashed[g]}
      OBVIOUS
    <3>5. job'[c] = new => InOrder(c)'
      <4> HIDE DEF new, h
      <4> QED BY <1>4, <2>0, <2>a, <3>1, <3>2, <3>4 DEF InOrder
    <3> HIDE DEF new
    <3> QED BY <3>3, <3>5, OrderStep
  <2>4. CASE /\ j.pc # "idle"
             /\ Becomes(c, [Goto(c, "build") EXCEPT !.hashed = Blank])
    <3> DEFINE new == [[j EXCEPT !.pc = "build"] EXCEPT !.hashed = Blank]
    <3>1. /\ new.since = j.since /\ new.first = j.first /\ new.built = j.built
          /\ new.hashed = Blank
      BY <2>0, <2>4, JobType
    <3>2. job'[c] = new => InOrder(c)'
      <4> HIDE DEF new
      <4> QED BY <1>4, <2>0, <2>4, <2>a, <3>1 DEF InOrder, Blank
    <3> HIDE DEF new
    <3> QED BY <2>4, <3>2, OrderStep DEF new, Goto
  <2>5. CASE Lookup(c)
    <3> DEFINE new == [[j EXCEPT !.pc = "build"] EXCEPT !.first = j.hashed,
                                                        !.hashed = Blank]
    <3>1. j.pc # "idle" /\ j.built = Blank
      BY <2>5 DEF Lookup, Fingerprinted
    <3>2. /\ new.since = j.since /\ new.first = j.hashed /\ new.built = Blank
          /\ new.hashed = Blank
      BY <2>0, <3>1, JobType
    <3>3. Becomes(c, new)
      BY <1>4, <2>5 DEF Lookup, Goto, Return
    <3>4. job'[c] = new => InOrder(c)'
      <4> HIDE DEF new
      <4> QED BY <1>4, <2>0, <2>a, <3>1, <3>2 DEF InOrder, Blank
    <3> HIDE DEF new
    <3> QED BY <3>3, <3>4, OrderStep
  <2>6. ASSUME NEW f \in Files, ReadInput(c, f) PROVE AllInOrder'
    <3> DEFINE new == [j EXCEPT !.built[f] = content[f]]
    <3>1. j.pc = "build" /\ j.hashed = Blank
      BY <2>0, <2>6 DEF ReadInput, Controlled
    <3>2. /\ new.since = j.since /\ new.first = j.first /\ new.hashed = Blank
          /\ new.built = [j.built EXCEPT ![f] = content[f]]
      BY <2>0, <3>1, JobType
    <3>3. \A g \in Files : new.built[g] = IF g = f THEN content[f] ELSE j.built[g]
      BY <2>0, <3>1, <3>2, JobType DEF Partial
    <3>4. job'[c] = new => InOrder(c)'
      <4> HIDE DEF new
      <4>1. ASSUME job'[c] = new, NEW g \in Files
            PROVE  new.built[g] # None => /\ new.since[g] <= new.built[g]
                                          /\ new.built[g] <= content[g]
                                          /\ new.first[g] # None =>
                                               new.first[g] <= new.built[g]
        BY <2>0, <2>a, <3>1, <3>2, <3>3 DEF InOrder
      <4>2. \A g \in Files : new.hashed[g] = None
        BY <3>2 DEF Blank
      <4> QED BY <1>4, <2>0, <3>1, <3>2, <4>1, <4>2 DEF InOrder
    <3> QED BY <2>6, <3>4, OrderStep DEF ReadInput
  <2>7. ASSUME NEW pc, j.pc # "idle", Becomes(c, Goto(c, pc)) PROVE AllInOrder'
    <3> DEFINE new == [j EXCEPT !.pc = pc]
    <3>1. /\ new.since = j.since /\ new.first = j.first /\ new.built = j.built
          /\ new.hashed = j.hashed
      BY <2>0, <2>7, JobType
    <3>2. job'[c] = new => InOrder(c)'
      <4> HIDE DEF new
      <4> QED BY <1>4, <2>0, <2>7, <3>1 DEF InOrder
    <3> QED BY <2>7, <3>2, OrderStep DEF Goto
  <2> QED
    BY <1>4, <2>1, <2>2, <2>3, <2>4, <2>5, <2>6, <2>7
    DEF Compile, FingerprintFails, NextToHash, BuildFails, BuildSucceeds,
        Recheck, Fingerprinted, CreateTemporary, WriteTemporary, Rename,
        WriteFails, ReturnOwn, Return
<1>5. ASSUME NEW c \in Compilers, Compile(c) PROVE content' = content
  BY <1>5
  DEF Compile, Request, HashFile, ListPackages, FingerprintFails, Lookup,
      ReadInput, BuildFails, BuildSucceeds, Recheck, CreateTemporary,
      WriteTemporary, Rename, WriteFails, Silent, ReturnOwn, Return
<1> QED
  BY <1>1, <1>2, <1>3, <1>4, <1>5
  DEF Next, Environment, Edit, LosePower, Kill, Becomes, vars

LEMMA AlwaysInOrder == ~Reverts => (Spec => []AllInOrder)
<1> SUFFICES ASSUME ~Reverts PROVE Spec => []AllInOrder
  OBVIOUS
<1>1. Inv /\ AllInOrder /\ [Next]_vars => AllInOrder'
  BY OrderNext
<1> QED BY <1>1, OrderInit, Invariance, PTL DEF Spec

-----------------------------------------------------------------------------
(* What is stored and what is served. *)

\* An artifact is published under the inputs that it was built from, because
\* the build took place between two equal fingerprints.
LEMMA BuiltFromFirst ==
  ASSUME Inv, AllInOrder, NEW c \in Compilers,
         job[c].pc \in {"create", "write", "rename"}
  PROVE  job[c].built = job[c].first /\ job[c].first \in Inputs
<1> DEFINE j == job[c]
<1>1. /\ Complete(j.built) /\ Complete(j.first) /\ j.hashed = j.first
      /\ j.built \in Partial /\ j.first \in Partial
  BY JobType DEF Inv, Controlled
<1>2. j.built \in Inputs /\ j.first \in Inputs
  BY <1>1, CompleteType
<1>3. ASSUME NEW f \in Files PROVE j.built[f] = j.first[f]
  <2>1. j.built[f] \in Int /\ j.first[f] \in Int
    BY <1>2, ContentsAreNumbers
  <2>2. j.first[f] <= j.built[f] /\ j.built[f] <= j.hashed[f]
    BY <1>1 DEF AllInOrder, InOrder, Complete
  <2> QED BY <1>1, <2>1, <2>2
<1> QED BY <1>2, <1>3 DEF Inputs

LEMMA EntriesNext ==
  Inv /\ AllInOrder /\ EntriesMatchKeys /\ [Next]_vars => EntriesMatchKeys'
<1> SUFFICES ASSUME Inv, AllInOrder, EntriesMatchKeys, [Next]_vars, NEW k \in Keys,
                    disk'[k] # Absent
             PROVE  disk'[k].built = k.inputs /\ disk'[k].request = k.request
  BY DEF EntriesMatchKeys
<1>0. disk \in [Paths -> File] /\ k \in Paths /\ \A c \in Compilers : c # k
  BY PathsDiffer DEF Inv, TypeOK, Paths
<1>1. CASE disk'[k] = disk[k]
  BY <1>1 DEF EntriesMatchKeys
<1>2. CASE LosePower
  <2>1. PICK l \in Keys, part \in {"header", "object"} :
          /\ disk[l].part = "whole"
          /\ disk' = [p \in Paths |-> IF p \in Compilers THEN Absent
                                      ELSE IF p = l THEN [disk[l] EXCEPT !.part = part]
                                      ELSE disk[p]]
    BY <1>2 DEF LosePower
  <2>2. disk'[k] = IF k = l THEN [disk[l] EXCEPT !.part = part] ELSE disk[k]
    BY <1>0, <2>1
  <2>3. CASE k = l
    <3>1. disk[k] \in File /\ disk[k] # Absent
      BY <1>0, <2>1, <2>3 DEF Absent
    <3>2. disk'[k].built = disk[k].built /\ disk'[k].request = disk[k].request
      BY <2>2, <2>3, <3>1 DEF File
    <3> QED BY <3>1, <3>2 DEF EntriesMatchKeys
  <2> QED BY <1>1, <2>2, <2>3
<1>3. ASSUME NEW c \in Compilers, Rename(c)
      PROVE  disk'[k].built = k.inputs /\ disk'[k].request = k.request
  <2>1. CASE k = KeyOf(c, job[c].first)
    <3>1. job[c].pc = "rename" /\ disk[c] = FileOf(c, "whole")
      BY <1>3 DEF Rename, Inv, Controlled
    <3>2. job[c].built = job[c].first
      BY <3>1, BuiltFromFirst
    <3>3. disk'[k] = disk[c]
      BY <1>0, <1>3, <2>1 DEF Rename, TemporaryPath
    <3> QED BY <2>1, <3>1, <3>2, <3>3 DEF FileOf, KeyOf
  <2>2. CASE k # KeyOf(c, job[c].first)
    BY <1>0, <1>1, <1>3, <2>2 DEF Rename, TemporaryPath
  <2> QED BY <2>1, <2>2
<1>4. ASSUME NEW c \in Compilers,
             \/ Kill(c) \/ CreateTemporary(c) \/ WriteTemporary(c)
             \/ WriteFails(c)
      PROVE  disk'[k] = disk[k]
  BY <1>0, <1>4
  DEF Kill, CreateTemporary, WriteTemporary, WriteFails, TemporaryPath
<1>5. CASE disk' = disk
  BY <1>1, <1>5
<1> QED
  BY <1>1, <1>2, <1>3, <1>4, <1>5
  DEF Next, Environment, Compile, Edit, Request, HashFile, ListPackages,
      FingerprintFails, Lookup, ReadInput, BuildFails, BuildSucceeds, Recheck,
      vars

\* If no file gets contents back that it had before, the artifact under a key
\* was built from the inputs that the key stands for.
THEOREM EntriesAreRight == ~Reverts => (Spec => []EntriesMatchKeys)
<1> SUFFICES ASSUME ~Reverts PROVE Spec => []EntriesMatchKeys
  OBVIOUS
<1>1. Init => EntriesMatchKeys
  BY DEF Init, EntriesMatchKeys, Paths
<1>2. Spec => []AllInOrder
  BY AlwaysInOrder
<1> QED BY <1>1, <1>2, EntriesNext, Invariance, PTL DEF Spec

\* Under the same condition every answer was built from contents that were
\* there after the request had been made.
THEOREM AnswersAreFresh == ~Reverts => (Spec => []AnswersAreCurrent)
<1> SUFFICES ASSUME ~Reverts PROVE Spec => []AnswersAreCurrent
  OBVIOUS
<1>1. Init => AnswersAreCurrent
  BY DEF Init, AnswersAreCurrent, Nothing
<1>2. Inv /\ AllInOrder /\ EntriesMatchKeys /\ AnswersAreCurrent /\ [Next]_vars
        => AnswersAreCurrent'
  <2> SUFFICES ASSUME Inv, AllInOrder, EntriesMatchKeys, AnswersAreCurrent,
                      [Next]_vars
               PROVE  AnswersAreCurrent'
    OBVIOUS
  <2>1. CASE answer' = Nothing \/ answer' = [what |-> "error"]
    BY <2>1 DEF AnswersAreCurrent, Nothing
  <2>2. CASE UNCHANGED vars
    BY <2>2 DEF vars, AnswersAreCurrent
  <2>3. ASSUME NEW c \in Compilers, NEW cached, NEW part, NEW built,
               Return(c, cached, part, built),
               \A f \in Files : /\ job[c].since[f] <= built[f]
                                /\ built[f] <= content[f]
        PROVE  AnswersAreCurrent'
    BY <2>3 DEF Return, AnswersAreCurrent
  <2>4. ASSUME NEW c \in Compilers, ReturnOwn(c), job[c].pc # "idle",
               Complete(job[c].built)
        PROVE  AnswersAreCurrent'
    <3>1. \A f \in Files : /\ job[c].since[f] <= job[c].built[f]
                           /\ job[c].built[f] <= content[f]
      BY <2>4 DEF AllInOrder, InOrder, Complete
    <3> QED BY <2>3, <2>4, <3>1 DEF ReturnOwn
  <2>5. ASSUME NEW c \in Compilers, Lookup(c) PROVE AnswersAreCurrent'
    <3> DEFINE k == KeyOf(c, job[c].hashed)
    <3>1. /\ job[c].pc = "packages" /\ Complete(job[c].hashed)
          /\ job[c].hashed \in Partial /\ job[c].hashed \in Inputs
      BY <2>5, JobType, CompleteType DEF Lookup, Fingerprinted, Inv
    <3>2. k \in Keys /\ k.inputs = job[c].hashed
      BY <3>1, JobType DEF KeyOf, Keys, Inv
    <3>3. CASE Readable(disk[k]) /\ Return(c, TRUE, disk[k].part, disk[k].built)
      <4>1. disk[k].built = job[c].hashed
        BY <3>2, <3>3 DEF EntriesMatchKeys, Readable, Absent
      <4>2. \A f \in Files : /\ job[c].since[f] <= job[c].hashed[f]
                             /\ job[c].hashed[f] <= content[f]
        BY <3>1 DEF AllInOrder, InOrder, Complete
      <4> QED BY <2>3, <3>3, <4>1, <4>2
    <3>4. CASE Silent
      BY <2>1, <3>4 DEF Silent
    <3> QED BY <2>5, <3>3, <3>4 DEF Lookup
  <2>6. ASSUME NEW c \in Compilers,
               \/ FingerprintFails(c) \/ BuildSucceeds(c) \/ Recheck(c)
               \/ Rename(c) \/ WriteFails(c)
        PROVE  AnswersAreCurrent'
    <3>0. Controlled(c)
      BY DEF Inv
    <3>1. CASE Silent
      BY <2>1, <3>1 DEF Silent
    <3>2. CASE FingerprintFails(c) /\ ReturnOwn(c) /\ job[c].built # Blank
      <4>1. job[c].pc # "idle" /\ Complete(job[c].built)
        BY <3>0, <3>2 DEF FingerprintFails, NextToHash, Controlled
      <4> QED BY <2>4, <3>2, <4>1
    <3>3. CASE BuildSucceeds(c) /\ ReturnOwn(c)
      <4>1. job[c].pc # "idle" /\ Complete(job[c].built)
        BY <3>3 DEF BuildSucceeds
      <4> QED BY <2>4, <3>3, <4>1
    <3>4. CASE Recheck(c) /\ ReturnOwn(c)
      <4>1. job[c].pc # "idle" /\ Complete(job[c].built)
        BY <3>0, <3>4 DEF Recheck, Fingerprinted, Controlled
      <4> QED BY <2>4, <3>4, <4>1
    <3>5. CASE (Rename(c) \/ WriteFails(c)) /\ ReturnOwn(c)
      <4>1. job[c].pc # "idle" /\ Complete(job[c].built)
        BY <3>0, <3>5 DEF Rename, WriteFails, Controlled
      <4> QED BY <2>4, <3>5, <4>1
    <3>6. CASE FingerprintFails(c)
      BY <3>1, <3>2, <3>6 DEF FingerprintFails
    <3>7. CASE BuildSucceeds(c)
      BY <3>1, <3>3, <3>7 DEF BuildSucceeds
    <3>8. CASE Recheck(c)
      BY <3>1, <3>4, <3>8 DEF Recheck
    <3>9. CASE Rename(c) \/ WriteFails(c)
      BY <3>5, <3>9 DEF Rename, WriteFails
    <3> QED BY <2>6, <3>6, <3>7, <3>8, <3>9
  <2> QED
    BY <2>1, <2>2, <2>5, <2>6
    DEF Next, Environment, Compile, Edit, LosePower, Kill, Request, HashFile,
        ListPackages, ReadInput, BuildFails, CreateTemporary, WriteTemporary,
        Silent
<1>3. Spec => []AllInOrder /\ []EntriesMatchKeys
  BY AlwaysInOrder, EntriesAreRight
<1> QED BY <1>1, <1>2, <1>3, Invariance, PTL DEF Spec

\* As long as nothing that was written is lost, entries are absent or whole, and
\* no truncated artifact is served.
EntriesWhole == \A k \in Keys : disk[k].part \in {"absent", "whole"}

THEOREM OnlyWholeIsServed == ~PowerLoss => (Spec => []CorruptEntriesAreMisses)
<1> SUFFICES ASSUME ~PowerLoss PROVE Spec => []CorruptEntriesAreMisses
  OBVIOUS
<1>1. Init => EntriesWhole /\ CorruptEntriesAreMisses
  BY DEF Init, EntriesWhole, CorruptEntriesAreMisses, Paths, Absent, Nothing
<1>2. Inv /\ EntriesWhole /\ [Next]_vars => EntriesWhole'
  <2> SUFFICES ASSUME Inv, EntriesWhole, [Next]_vars, NEW k \in Keys
               PROVE  disk'[k].part \in {"absent", "whole"}
    BY DEF EntriesWhole
  <2>0. disk \in [Paths -> File] /\ k \in Paths /\ \A c \in Compilers : c # k
    BY PathsDiffer DEF Inv, TypeOK, Paths
  <2>1. CASE disk'[k] = disk[k]
    BY <2>1 DEF EntriesWhole
  <2>2. ASSUME NEW c \in Compilers, Rename(c)
        PROVE  disk'[k].part \in {"absent", "whole"}
    <3>1. disk[c] = FileOf(c, "whole")
      BY <2>2 DEF Rename, Inv, Controlled
    <3>2. disk'[k] = disk[k] \/ disk'[k] = disk[c]
      BY <2>0, <2>2 DEF Rename, TemporaryPath
    <3> QED BY <2>1, <3>1, <3>2 DEF FileOf
  <2>3. ASSUME NEW c \in Compilers,
               \/ Kill(c) \/ CreateTemporary(c) \/ WriteTemporary(c)
               \/ WriteFails(c)
        PROVE  disk'[k] = disk[k]
    BY <2>0, <2>3
    DEF Kill, CreateTemporary, WriteTemporary, WriteFails, TemporaryPath
  <2>4. CASE disk' = disk
    BY <2>1, <2>4
  <2> QED
    BY <2>1, <2>2, <2>3, <2>4
    DEF Next, Environment, LosePower, Compile, Edit, Request, HashFile,
        ListPackages, FingerprintFails, Lookup, ReadInput, BuildFails,
        BuildSucceeds, Recheck, vars
<1>3. Inv /\ EntriesWhole /\ CorruptEntriesAreMisses /\ [Next]_vars
        => CorruptEntriesAreMisses'
  <2> SUFFICES ASSUME Inv, EntriesWhole, CorruptEntriesAreMisses, [Next]_vars
               PROVE  CorruptEntriesAreMisses'
    OBVIOUS
  <2>1. ASSUME NEW c \in Compilers, Lookup(c) PROVE CorruptEntriesAreMisses'
    <3> DEFINE k == KeyOf(c, job[c].hashed)
    <3>1. job[c].pc = "packages" /\ job[c].hashed \in Inputs
      BY <2>1, JobType, CompleteType DEF Lookup, Fingerprinted, Inv
    <3>2. k \in Keys
      BY <3>1, JobType DEF KeyOf, Keys, Inv
    <3>3. Readable(disk[k]) => disk[k].part = "whole"
      BY <3>2 DEF EntriesWhole, Readable
    <3> QED BY <2>1, <3>3 DEF Lookup, Return, Silent, Nothing,
                              CorruptEntriesAreMisses
  <2>2. CASE answer' = Nothing \/ answer' = [what |-> "error"]
    BY <2>2 DEF CorruptEntriesAreMisses, Nothing
  <2>3. ASSUME NEW c \in Compilers, ReturnOwn(c) PROVE CorruptEntriesAreMisses'
    BY <2>3 DEF ReturnOwn, Return, CorruptEntriesAreMisses
  <2>4. CASE UNCHANGED vars
    BY <2>4 DEF vars, CorruptEntriesAreMisses
  <2> QED
    BY <2>1, <2>2, <2>3, <2>4
    DEF Next, Environment, LosePower, Kill, Compile, Edit, Request, HashFile,
        ListPackages, FingerprintFails, ReadInput, BuildFails, BuildSucceeds,
        Recheck, CreateTemporary, WriteTemporary, Rename, WriteFails, Silent
<1> QED BY <1>1, <1>2, <1>3, Invariance, PTL DEF Spec

\* Entries appear, and are replaced, in one piece, and none is removed, whichever
\* processes write at once and wherever they are killed or fail (writeCacheEntry).
THEOREM PublicationIsAtomic == Spec => EntriesAppearWhole
<1>1. Inv /\ [Next]_vars =>
        (~LosePower => \A k \in Keys : disk'[k] # disk[k] => disk'[k].part = "whole")
  <2> SUFFICES ASSUME Inv, [Next]_vars, ~LosePower, NEW k \in Keys, disk'[k] # disk[k]
               PROVE  disk'[k].part = "whole"
    OBVIOUS
  <2>1. disk \in [Paths -> File] /\ k \in Paths /\ \A c \in Compilers : c # k
    BY PathsDiffer DEF Inv, TypeOK, Paths
  <2>2. ASSUME NEW c \in Compilers, Rename(c) PROVE disk'[k].part = "whole"
    <3>1. disk[c] = FileOf(c, "whole")
      BY <2>2 DEF Rename, Inv, Controlled
    <3>2. disk'[k] = disk[c]
      BY <2>1, <2>2 DEF Rename, TemporaryPath
    <3> QED BY <3>1, <3>2 DEF FileOf
  <2>3. ASSUME NEW c \in Compilers,
               \/ Kill(c) \/ CreateTemporary(c) \/ WriteTemporary(c)
               \/ WriteFails(c)
        PROVE  disk'[k] = disk[k]
    BY <2>1, <2>3
    DEF Kill, CreateTemporary, WriteTemporary, WriteFails, TemporaryPath
  <2> QED
    BY <2>2, <2>3
    DEF Next, Environment, Compile, Edit, Request, HashFile, ListPackages,
        FingerprintFails, Lookup, ReadInput, BuildFails, BuildSucceeds, Recheck,
        vars
<1> QED BY <1>1, Invariance, PTL DEF Spec, EntriesAppearWhole
=============================================================================
