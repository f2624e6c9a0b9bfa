---------------------------- MODULE MCChatClient ----------------------------
(* Two chats, one of them with a history, and two prompts between them.    *)
EXTENDS ChatClient

KidSymmetry == Permutations(Kid)

(* Bounds: the history of one chat at a time is on its way, and only the   *)
(* run of the first prompt has both sub-runs open at once.                 *)
OneFetch == Cardinality(fetching) <= 1
FewKids == \A r \in Prompt : r > 1 => Cardinality(stream[r].kids) <= 1
=============================================================================
