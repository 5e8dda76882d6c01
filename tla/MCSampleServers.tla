-------------------------- MODULE MCSampleServers --------------------------
(* The instance of SampleServers for TLC. *)
EXTENDS SampleServers

\* Questions with up to two words: the order of two rows is all that a longer
\* one could show.
Pairs == {{v, w} : v \in Words, w \in Words} \cup {{}}
=============================================================================
