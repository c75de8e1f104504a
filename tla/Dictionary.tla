----------------------------- MODULE Dictionary ----------------------------
(***************************************************************************)
(* What the language promises of a map: a partial function from keys to    *)
(* values.  A call is made, takes effect at some point and returns.        *)
(***************************************************************************)
EXTENDS FiniteSets

CONSTANTS Key, Val, Missing

VARIABLES dict,     \* [Key -> Val \cup {Missing}]
          request,  \* the call under way
          answer    \* what the last call to return returned

dictVars == <<dict, request, answer>>

Call == [op : {"set"}, key : Key, val : Val] \cup [op : {"get", "delete"}, key : Key]
Idle == [op |-> "none"]

Init == dict = [k \in Key |-> Missing] /\ request = Idle /\ answer = Missing

Invoke(c) == /\ request = Idle
             /\ request' = c
             /\ UNCHANGED <<dict, answer>>

Set == /\ request.op = "set"
       /\ dict' = [dict EXCEPT ![request.key] = request.val]
       /\ answer' = request.val

Get == /\ request.op = "get"
       /\ answer' = dict[request.key]
       /\ dict' = dict

Delete == /\ request.op = "delete"
          /\ answer' = (dict[request.key] # Missing)
          /\ dict' = [dict EXCEPT ![request.key] = Missing]

Return == (Set \/ Get \/ Delete) /\ request' = Idle

Next == (\E c \in Call : Invoke(c)) \/ Return

Spec == Init /\ [][Next]_dictVars
=============================================================================
