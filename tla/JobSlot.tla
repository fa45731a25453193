------------------------------ MODULE JobSlot ------------------------------
(***************************************************************************)
(* What the live matching state promises about drivers and jobs, and       *)
(* nothing else: a driver has ONE job slot.  The slot is idle, holds an    *)
(* offer for one trip, or holds one trip the driver is serving, and a      *)
(* driver that refused a trip is not offered it again until the trip's     *)
(* refusals are forgotten.  This is the guarantee claimed by the header of *)
(* matching/redis/lua-scripts.ts; DriverPool implements it.                *)
(***************************************************************************)
CONSTANTS Drivers, Trips

VARIABLES slot,     \* slot[d]: the job slot of driver d
          refused   \* refused[t]: the drivers that refused trip t

slotVars == <<slot, refused>>

Idle       == [phase |-> "idle"]
Offered(t) == [phase |-> "offered", trip |-> t]
Serving(t) == [phase |-> "serving", trip |-> t]

Slots == {Idle} \cup {Offered(t) : t \in Trips} \cup {Serving(t) : t \in Trips}

SlotTypeOK == /\ slot \in [Drivers -> Slots]
              /\ refused \in [Trips -> SUBSET Drivers]

SlotInit == /\ slot = [d \in Drivers |-> Idle]
            /\ refused = [t \in Trips |-> {}]

Offer(d, t) == /\ slot[d] = Idle
               /\ d \notin refused[t]
               /\ slot' = [slot EXCEPT ![d] = Offered(t)]
               /\ UNCHANGED refused

Accept(d, t) == /\ slot[d] = Offered(t)
                /\ slot' = [slot EXCEPT ![d] = Serving(t)]
                /\ UNCHANGED refused

Refuse(d, t) == /\ slot[d] = Offered(t)
                /\ slot' = [slot EXCEPT ![d] = Idle]
                /\ refused' = [refused EXCEPT ![t] = @ \cup {d}]

\* The offer lapses (its time to live) or the driver leaves with it.
Withdraw(d, t) == /\ slot[d] = Offered(t)
                  /\ slot' = [slot EXCEPT ![d] = Idle]
                  /\ UNCHANGED refused

Finish(d, t) == /\ slot[d] = Serving(t)
                /\ slot' = [slot EXCEPT ![d] = Idle]
                /\ UNCHANGED refused

Forget(t) == /\ refused' = [refused EXCEPT ![t] = {}]
             /\ UNCHANGED slot

SlotNext == \/ \E d \in Drivers, t \in Trips :
                 \/ Offer(d, t)
                 \/ Accept(d, t)
                 \/ Refuse(d, t)
                 \/ Withdraw(d, t)
                 \/ Finish(d, t)
            \/ \E t \in Trips : Forget(t)

SlotSpec == SlotInit /\ [][SlotNext]_slotVars
=============================================================================
