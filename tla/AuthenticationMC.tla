-------------------------- MODULE AuthenticationMC --------------------------
(* Messages of one and of two buffers: one is the beginning of another. *)
EXTENDS Authentication

MCMessages == {<<"header">>, <<"header", "content">>, <<"content", "header">>}
=============================================================================
