-------------------------- MODULE DelegatedRequest --------------------------
(***************************************************************************)
(* What the OBO chain promises for each question: advice is given at most  *)
(* once, only after a grant made for the user's token; "advice" is         *)
(* answered only after it was given; and once the user has been told       *)
(* anything but "error", nothing more is done in the user's name.          *)
(***************************************************************************)
CONSTANTS Chats
VARIABLES stage, token, answer

vars == <<stage, token, answer>>

Init ==
  /\ stage = [c \in Chats |-> "new"]
  /\ token = [c \in Chats |-> FALSE]
  /\ answer = [c \in Chats |-> "none"]

\* The only sign of life of a request the user has given up on.
Open(c) == answer[c] \in {"none", "error"}

Ask(c) ==
  /\ stage[c] = "new" /\ answer[c] = "none"
  /\ stage' = [stage EXCEPT ![c] = "asked"]
  /\ token' \in {token, [token EXCEPT ![c] = TRUE]}
  /\ UNCHANGED answer

Grant(c) ==
  /\ stage[c] = "asked" /\ token[c] /\ Open(c)
  /\ stage' = [stage EXCEPT ![c] = "granted"]
  /\ UNCHANGED <<token, answer>>

Advise(c) ==
  /\ stage[c] = "granted" /\ Open(c)
  /\ stage' = [stage EXCEPT ![c] = "advised"]
  /\ UNCHANGED <<token, answer>>

Answer(c, how) ==
  /\ stage[c] # "new" /\ answer[c] = "none"
  /\ how = "advice" => stage[c] = "advised"
  /\ how = "refused" => stage[c] = "granted"
  /\ answer' = [answer EXCEPT ![c] = how]
  /\ UNCHANGED <<stage, token>>

Next == \E c \in Chats :
  \/ Ask(c) \/ Grant(c) \/ Advise(c)
  \/ \E how \in {"advice", "refused", "error"} : Answer(c, how)

Spec == Init /\ [][Next]_vars
=============================================================================
