-------------------------- MODULE GPUArtifactCache --------------------------
(***************************************************************************)
(* OfficialGPUCompiler::compile of src/compiler/OfficialGPUCompiler.cpp:   *)
(* sessions, in one process or in several, that compile kernels with the   *)
(* official compiler and share a directory of artifacts, while somebody    *)
(* edits the files that the artifacts depend on.                           *)
(*                                                                         *)
(* The contents of a file are a number; a digest is the contents that were *)
(* digested. The import paths, whose order the code digests too, are the   *)
(* same for all. A request is a source text with its target.               *)
(***************************************************************************)
EXTENDS Integers

CONSTANTS
  Compilers,   \* the calls of compile() that may run at once
  Requests,    \* what they compile
  Packages,    \* the packages on the import paths are 1..Packages
  Versions,    \* the contents that a file can have
  Missing,     \* the contents of a file that is not there
  Reverts,     \* whether a file may get contents that it had before
  PowerLoss,   \* whether files that were written can lose their end
  MaxEdits,    \* bound: this many edits
  MaxCalls     \* bound: this many calls

None == -1

\* File 0 is the official compiler.
Files == 0..Packages

ASSUME CacheAssumption ==
  /\ Packages \in Nat /\ Versions \subseteq Nat /\ 0 \in Versions
  /\ Compilers \cap [inputs : [Files -> Versions], request : Requests] = {}
  /\ Missing \in Versions \ {0} /\ MaxEdits \in Nat /\ MaxCalls \in Nat
  /\ Reverts \in BOOLEAN /\ PowerLoss \in BOOLEAN

VARIABLES
  content,  \* the contents of the input files
  edits,    \* how many edits there have been
  calls,    \* how many calls there have been
  disk,     \* the cache directory
  job,      \* the progress of each compilation
  answer    \* what the last step returned to its caller

vars == <<content, edits, calls, disk, job, answer>>

Inputs  == [Files -> Versions]
Blank   == [f \in Files |-> None]

\* The files of the cache directory: an entry per key, and temporary files.
Keys   == [inputs : Inputs, request : Requests]
Paths  == Keys \union Compilers
Absent == [part |-> "absent"]

Idle == [pc |-> "idle"]

Nothing == [what |-> "nothing"]

Init ==
  /\ content = [f \in Files |-> 0] /\ edits = 0 /\ calls = 0
  /\ disk = [p \in Paths |-> Absent]
  /\ job = [c \in Compilers |-> Idle]
  /\ answer = Nothing

-----------------------------------------------------------------------------
(* The environment. *)

Edit(f) ==
  /\ edits < MaxEdits /\ edits' = edits + 1
  /\ \E v \in Versions \ {content[f]} :
       /\ Reverts \/ v > content[f]
       /\ content' = [content EXCEPT ![f] = v]
  /\ answer' = Nothing
  /\ UNCHANGED <<calls, disk, job>>

\* A process is killed; its temporary file stays, under a name that nobody uses
\* again, and is left out.
Kill(c) ==
  /\ job[c].pc # "idle"
  /\ job' = [job EXCEPT ![c] = Idle]
  /\ disk' = [disk EXCEPT ![c] = Absent]
  /\ answer' = Nothing
  /\ UNCHANGED <<content, edits, calls>>

\* Nothing is flushed to the device before the rename.
LosePower ==
  /\ PowerLoss
  /\ job' = [c \in Compilers |-> Idle]
  /\ \E k \in Keys, part \in {"header", "object"} :
       /\ disk[k].part = "whole"
       /\ disk' = [p \in Paths |-> IF p \in Compilers THEN Absent
                                  ELSE IF p = k THEN [disk[k] EXCEPT !.part = part]
                                  ELSE disk[p]]
  /\ answer' = Nothing
  /\ UNCHANGED <<content, edits, calls>>

-----------------------------------------------------------------------------
(* compile() *)

Becomes(c, j) == job' = [job EXCEPT ![c] = j]

Goto(c, pc) == [job[c] EXCEPT !.pc = pc]

Return(c, cached, part, built) ==
  /\ Becomes(c, Idle)
  /\ answer' = [what |-> "artifact", request |-> job[c].request,
                since |-> job[c].since, cached |-> cached, part |-> part,
                built |-> built]
  /\ UNCHANGED <<content, edits, calls>>

ReturnOwn(c) == Return(c, FALSE, "whole", job[c].built)

Silent == answer' = Nothing /\ UNCHANGED <<content, edits, calls>>

\* With a cache directory the inputs are fingerprinted, else they are not.
Request(c, r) ==
  /\ job[c].pc = "idle" /\ calls < MaxCalls /\ calls' = calls + 1
  /\ \E pc \in {"compiler", "build"} :
       Becomes(c, [pc |-> pc, request |-> r, since |-> content,
                   hashed |-> Blank, first |-> Blank, built |-> Blank])
  /\ answer' = Nothing
  /\ UNCHANGED <<content, edits, disk>>

(* getToolchainFingerprint, called before the build and after it *)

Complete(inputs) == \A f \in Files : inputs[f] # None

\* The compiler is digested first, then the packages that were found, in the
\* order of their names.
NextToHash(c, f) ==
  /\ \/ job[c].pc = "compiler" /\ f = 0
     \/ job[c].pc = "packages" /\ job[c].hashed[f] = None
  /\ \A g \in Files : job[c].hashed[g] = None => f <= g

HashFile(c, f) ==
  /\ NextToHash(c, f) /\ content[f] # Missing
  /\ Becomes(c, [job[c] EXCEPT !.hashed[f] = content[f],
                               !.pc = IF f = 0 THEN "list" ELSE @])
  /\ Silent /\ UNCHANGED disk

\* What is not there leaves no trace in the fingerprint.
ListPackages(c) ==
  /\ job[c].pc = "list"
  /\ Becomes(c, [Goto(c, "packages") EXCEPT
                   !.hashed = [f \in Files |->
                                 IF f # 0 /\ content[f] = Missing
                                   THEN Missing ELSE @[f]]])
  /\ Silent /\ UNCHANGED disk

\* A directory cannot be read, or a file that was listed is gone: the build
\* takes place without the cache, or is not cached.
FingerprintFails(c) ==
  /\ \/ job[c].pc = "list"
     \/ \E f \in Files : NextToHash(c, f) /\ content[f] = Missing
  /\ \/ /\ job[c].built = Blank
        /\ Becomes(c, [Goto(c, "build") EXCEPT !.hashed = Blank])
        /\ Silent
     \/ /\ job[c].built # Blank
        /\ ReturnOwn(c)
  /\ UNCHANGED disk

Fingerprinted(c) == job[c].pc = "packages" /\ Complete(job[c].hashed)

\* Fault: the packages are left out of the key.
KeyOfCompiler(c, inputs) ==
  [inputs |-> [f \in Files |-> inputs[0]], request |-> job[c].request]

KeyOf(c, inputs) == [inputs |-> inputs, request |-> job[c].request]

\* Fault: the artifact is written where it will be read.
InPlace(c) == KeyOf(c, job[c].first)

TemporaryPath(c) == c

\* readCacheEntry checks what precedes the object, but not its length.
Readable(file) == file.part \in {"object", "whole"}

Lookup(c) ==
  /\ Fingerprinted(c) /\ job[c].built = Blank
  /\ LET entry == disk[KeyOf(c, job[c].hashed)]
     IN  \/ /\ Readable(entry)
            /\ Return(c, TRUE, entry.part, entry.built)
         \/ /\ ~Readable(entry)
            /\ Becomes(c, [Goto(c, "build") EXCEPT !.first = job[c].hashed,
                                                   !.hashed = Blank])
            /\ Silent
  /\ UNCHANGED disk

\* The official compiler reads its inputs, in an order of its own.
ReadInput(c, f) ==
  /\ job[c].pc = "build" /\ job[c].built[f] = None
  /\ f = 0 => content[f] # Missing
  /\ Becomes(c, [job[c] EXCEPT !.built[f] = content[f]])
  /\ Silent /\ UNCHANGED disk

BuildFails(c) ==
  /\ job[c].pc = "build"
  /\ Becomes(c, Idle)
  /\ answer' = [what |-> "error"]
  /\ UNCHANGED <<content, edits, calls, disk>>

BuildSucceeds(c) ==
  /\ job[c].pc = "build" /\ Complete(job[c].built)
  /\ \/ /\ job[c].first # Blank
        /\ Becomes(c, Goto(c, "compiler"))
        /\ Silent
     \/ /\ job[c].first = Blank
        /\ ReturnOwn(c)
  /\ UNCHANGED disk

\* Fault: only the compiler is compared.
CompilerUnchanged(c) == job[c].hashed[0] = job[c].first[0]

Unchanged(c) == job[c].hashed = job[c].first

Recheck(c) ==
  /\ Fingerprinted(c) /\ job[c].built # Blank
  /\ \/ /\ Unchanged(c)
        /\ Becomes(c, Goto(c, "create"))
        /\ Silent
     \/ /\ ~Unchanged(c)
        /\ ReturnOwn(c)
  /\ UNCHANGED disk

(* writeCacheEntry *)

FileOf(c, part) == [part |-> part, request |-> job[c].request,
                    built |-> job[c].built]

CreateTemporary(c) ==
  /\ job[c].pc = "create"
  /\ \E part \in {"header", "object"} :
       disk' = [disk EXCEPT ![TemporaryPath(c)] = FileOf(c, part)]
  /\ Becomes(c, Goto(c, "write"))
  /\ Silent

WriteTemporary(c) ==
  /\ job[c].pc = "write"
  /\ disk' = [disk EXCEPT ![TemporaryPath(c)] = FileOf(c, "whole")]
  /\ Becomes(c, Goto(c, "rename"))
  /\ Silent

Rename(c) ==
  /\ job[c].pc = "rename"
  /\ disk' = [disk EXCEPT ![TemporaryPath(c)] = Absent,
                          ![KeyOf(c, job[c].first)] = disk[TemporaryPath(c)]]
  /\ ReturnOwn(c)

\* A step of writing that fails removes the temporary file.
WriteFails(c) ==
  /\ job[c].pc \in {"create", "write", "rename"}
  /\ disk' = [disk EXCEPT ![TemporaryPath(c)] = Absent]
  /\ ReturnOwn(c)

-----------------------------------------------------------------------------
Compile(c) ==
  \/ \E r \in Requests : Request(c, r)
  \/ \E f \in Files : HashFile(c, f)
  \/ ListPackages(c) \/ FingerprintFails(c)
  \/ Lookup(c)
  \/ \E f \in Files : ReadInput(c, f)
  \/ BuildFails(c) \/ BuildSucceeds(c) \/ Recheck(c)
  \/ CreateTemporary(c) \/ WriteTemporary(c) \/ Rename(c) \/ WriteFails(c)

Environment == (\E f \in Files : Edit(f)) \/ LosePower

Next == Environment \/ \E c \in Compilers : Compile(c) \/ Kill(c)

Spec == Init /\ [][Next]_vars

-----------------------------------------------------------------------------
(* Properties. *)

Parts == {"header", "object", "whole"}

File == {Absent} \union [part : Parts, request : Requests, built : Inputs]

Partial == [Files -> Versions \union {None}]

Job == {Idle}
       \union [pc : {"compiler", "list", "packages", "build", "create", "write",
                     "rename"},
               request : Requests, since : Inputs, hashed : Partial,
               first : Partial, built : Partial]

Answer == {Nothing, [what |-> "error"]}
          \union [what : {"artifact"}, request : Requests, since : Inputs,
                  cached : BOOLEAN, part : Parts, built : Inputs]

\* Every variable has its shape; what is on disk and what is returned was
\* built from a complete set of inputs.
TypeOK ==
  /\ content \in Inputs /\ edits \in 0..MaxEdits /\ calls \in 0..MaxCalls
  /\ disk \in [Paths -> File] /\ job \in [Compilers -> Job]
  /\ answer \in Answer

\* The artifact under a key was built from the inputs and the source that the
\* key stands for.
EntriesMatchKeys ==
  \A k \in Keys : disk[k] # Absent => /\ disk[k].built = k.inputs
                                      /\ disk[k].request = k.request

\* An answer, cached or not, was built from contents that each file has had
\* since the request was made.
AnswersAreCurrent ==
  answer.what = "artifact" =>
    \A f \in Files : /\ answer.since[f] <= answer.built[f]
                     /\ answer.built[f] <= content[f]

\* Entries appear, and are replaced, in one piece, and none is removed, whoever
\* reads the directory and wherever a writer is killed or fails: only a loss of
\* power leaves less of an entry (writeCacheEntry, which renames a whole file).
EntriesAppearWhole ==
  [][~LosePower => \A k \in Keys : disk'[k] # disk[k] => disk'[k].part = "whole"]_vars

\* No truncated artifact is ever served: corrupt entries are misses.
CorruptEntriesAreMisses == answer.what = "artifact" => answer.part = "whole"
=============================================================================
