------------------------------ MODULE SortedKeys ------------------------------
(***************************************************************************)
(* What the tree of price levels promises its callers: it is a set of      *)
(* keys.  A request to insert or to delete a key is answered at one        *)
(* instant, and changes that key's membership and nothing else.            *)
(***************************************************************************)
EXTENDS Naturals

CONSTANT MaxKey

Key == 1..MaxKey
NoRequest == [kind |-> "none", key |-> 0]
Request == [kind : {"insert", "delete"}, key : Key]

VARIABLES keys,      \* the keys of the map
          request    \* the call under way

KeysInit == keys = {} /\ request = NoRequest

Ask == /\ request = NoRequest
       /\ request' \in Request
       /\ UNCHANGED keys

Answer == /\ request # NoRequest
          /\ request' = NoRequest
          /\ keys' = IF request.kind = "insert" THEN keys \cup {request.key}
                                                ELSE keys \ {request.key}

KeysSpec == KeysInit /\ [][Ask \/ Answer]_<<keys, request>>
=============================================================================
