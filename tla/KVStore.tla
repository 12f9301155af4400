------------------------------ MODULE KVStore ------------------------------
(***************************************************************************)
(* What a variable store on flash promises to its caller, whatever happens *)
(* to the power: a variable changes only by a write asked for and not yet  *)
(* answered, or by a clear; a call that reports success has taken effect;  *)
(* a call cut short by the power has taken effect wholly or not at all.    *)
(***************************************************************************)
CONSTANTS Keys, Data, None

VARIABLES
  mem,       \* what is kept for each key, None when nothing is
  req,       \* the call being served: << >>, <<"clear">> or <<key, data>>
  status     \* what the last call returned

kvars == <<mem, req, status>>

Success == "FLASH_COMPLETE"

Init ==
  /\ mem = [k \in Keys |-> None]
  /\ req = << >> /\ status = ""

Ask ==
  /\ req = << >> /\ req' \in {<<"clear">>} \cup (Keys \X Data)
  /\ UNCHANGED <<mem, status>>

Store ==
  /\ req \in Keys \X Data
  /\ mem' = [mem EXCEPT ![req[1]] = req[2]]
  /\ UNCHANGED <<req, status>>

Forget ==
  /\ req = <<"clear">>
  /\ \E gone \in SUBSET Keys :
       mem' = [k \in Keys |-> IF k \in gone THEN None ELSE mem[k]]
  /\ UNCHANGED <<req, status>>

Done ==
  /\ req' = << >> /\ mem' = mem
  /\ status' = Success =>
       \/ req = << >>
       \/ req = <<"clear">> /\ \A k \in Keys : mem[k] = None
       \/ req \in Keys \X Data /\ mem[req[1]] = req[2]

Next == Ask \/ Store \/ Forget \/ Done

Spec == Init /\ [][Next]_kvars
=============================================================================
