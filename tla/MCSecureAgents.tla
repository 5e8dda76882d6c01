-------------------------- MODULE MCSecureAgents --------------------------
(* Instances of SecureAgents for TLC. *)
EXTENDS SecureAgents, TLC
CONSTANTS chat1, chat2

TwoChats == {chat1, chat2}

To(a, verb) == [who |-> a, how |-> verb]
Talk == To(Nobody, "name")

\* "ping Dexter, ping Thatcher"; "Dexter, tell Thatcher: hello"; "contact
\* Dexter and Thatcher", which is forwarded for ever; send "ping Thatcher" to
\* Dexter; and, side by side with one of these, "hello" or "send a message to
\* Dexter: hello".
SomeTexts ==
  (chat1 :> { <<To(Dexter, "ping"), To(Thatcher, "ping")>>,
              <<To(Dexter, "name"), To(Thatcher, "tell"), Talk>>,
              <<To(Dexter, "contact"), To(Thatcher, "name")>>,
              <<To(Thatcher, "ping"), To(Dexter, "quote")>> }) @@
  (chat2 :> { <<Talk>>, <<To(Dexter, "send"), Talk>> })
=============================================================================
