---- MODULE MCPublisher ----
(***************************************************************************)
(* TLC instance of Publisher.                                              *)
(***************************************************************************)
EXTENDS Publisher
====
