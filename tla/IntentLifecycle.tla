--------------------------- MODULE IntentLifecycle ---------------------------
(***************************************************************************)
(* What the order manager promises to the layers above it, said without    *)
(* callers, requests, retries or lost answers.  In one life of the process *)
(* an intent is staged at most once, is given to the exchange at most      *)
(* once, is refused only if it was not, and after that its status only     *)
(* moves along the transition table of src/execution/oms.ts.               *)
(***************************************************************************)
CONSTANTS Keys, BrokerIds

VARIABLES
  intent, \* key -> where the intent is in its life
  placed  \* key -> the exchange orders placed for it in this life

avars == <<intent, placed>>

After ==
  [ABSENT           |-> {},
   PENDING_NEW      |-> {"OPEN"},
   OPEN             |-> {"PARTIALLY_FILLED", "FILLED"},
   PARTIALLY_FILLED |-> {"FILLED"},
   FILLED           |-> {}, CANCELLED |-> {}, REJECTED |-> {}]

AInit == /\ intent = [k \in Keys |-> "ABSENT"]
         /\ placed = [k \in Keys |-> {}]

Become(k, status) == intent' = [intent EXCEPT ![k] = status]

StageIntent(k) ==
  /\ intent[k] = "ABSENT"
  /\ Become(k, "PENDING_NEW")
  /\ UNCHANGED placed

PlaceIntent(k) ==
  /\ intent[k] = "PENDING_NEW"
  /\ placed[k] = {}
  /\ \E b \in BrokerIds : placed' = [placed EXCEPT ![k] = {b}]
  /\ UNCHANGED intent

RefuseIntent(k) ==
  /\ intent[k] = "PENDING_NEW"
  /\ placed[k] = {}
  /\ Become(k, "REJECTED")
  /\ UNCHANGED placed

AdvanceIntent(k) ==
  /\ placed[k] # {}
  /\ \E to \in After[intent[k]] : Become(k, to)
  /\ UNCHANGED placed

ForgetAll ==
  /\ intent' = [k \in Keys |-> "ABSENT"]
  /\ placed' = [k \in Keys |-> {}]

ANext == \/ \E k \in Keys : \/ StageIntent(k) \/ PlaceIntent(k)
                            \/ RefuseIntent(k) \/ AdvanceIntent(k)
         \/ ForgetAll

ASpec == AInit /\ [][ANext]_avars
=============================================================================
