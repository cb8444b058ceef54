--------------------------- MODULE JupyterKernelMC --------------------------
(* Two cells and short texts. *)
EXTENDS JupyterKernel

MCSources == {[decls |-> {"f"}, vars |-> <<[name |-> "a", type |-> "Int"]>>],
              [decls |-> {}, vars |-> <<[name |-> "b", type |-> "Int"],
                                        [name |-> "c", type |-> "Int"]>>]}

MCShadow(scope_, decls, n) == scope_ \union {[name |-> d, cell |-> n] : d \in decls}

MCTexts == { <<>>, <<"word", "word">>, <<"two", "word", "word">>,
             <<"word", "three", "word", "other">>, <<"other", "two", "three">>,
             <<"word", "four", "word">> }
=============================================================================
