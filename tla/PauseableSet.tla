----------------------------- MODULE PauseableSet -----------------------------
(***************************************************************************)
(* PauseableEnumerableSet.AddressSet of Symbiotic's middleware-sdk, the    *)
(* library the contracts keep operators, vaults and strategies in.  Its    *)
(* source is a git submodule outside this repository: the operators below  *)
(* are what the contracts rely on, as their code and tests show it.        *)
(*                                                                         *)
(* A set is a record: "order" is the array the library enumerates (at,     *)
(* length) and "status" the enabled and disabled timestamps it keeps with  *)
(* each element; an address that is not in the array has the zero status.  *)
(* Each mutator has a Can... operator beside it, the negation of the       *)
(* conditions on which the library reverts.                                *)
(***************************************************************************)
EXTENDS Integers, Sequences

Status == [enabled : Nat, disabled : Nat]

ZeroStatus == [enabled |-> 0, disabled |-> 0]

EmptySet(Addr) == [order |-> << >>, status |-> [a \in Addr |-> ZeroStatus]]

Contains(set, a) == \E i \in DOMAIN set.order : set.order[i] = a

IsPaused(set, a) == Contains(set, a) /\ set.status[a].disabled # 0

(* An element counts from the timestamp after the one it was enabled at.   *)
WasActiveAt(set, ts, a) ==
    /\ Contains(set, a)
    /\ set.status[a].enabled < ts
    /\ set.status[a].disabled = 0 \/ set.status[a].disabled >= ts

CanRegister(set, a) == ~Contains(set, a)

Register(set, ts, a) ==
    [order  |-> Append(set.order, a),
     status |-> [set.status EXCEPT ![a] = [enabled |-> ts, disabled |-> 0]]]

CanPause(set, a) ==
    Contains(set, a) /\ set.status[a].enabled # 0 /\ set.status[a].disabled = 0

Pause(set, ts, a) ==
    [order  |-> set.order,
     status |-> [set.status EXCEPT ![a] = [@ EXCEPT !.disabled = ts]]]

(* Both unpausing and unregistering wait for the immutable period.         *)
PeriodPassed(set, ts, period, a) == set.status[a].disabled + period <= ts

CanUnpause(set, ts, period, a) ==
    IsPaused(set, a) /\ PeriodPassed(set, ts, period, a)

Unpause(set, ts, a) ==
    [order  |-> set.order,
     status |-> [set.status EXCEPT ![a] = [enabled |-> ts, disabled |-> 0]]]

CanUnregister(set, ts, period, a) ==
    IsPaused(set, a) /\ PeriodPassed(set, ts, period, a)

(* A plausible bug: what is popped is the last element, unswapped.         *)
Mut_SwapPop(seq, a) == [i \in 1 .. Len(seq) - 1 |-> seq[i]]

(* The last element of the array takes the place of the removed one.       *)
SwapPop(seq, a) ==
    [i \in 1 .. Len(seq) - 1 |-> IF seq[i] = a THEN seq[Len(seq)] ELSE seq[i]]

Unregister(set, a) ==
    [order  |-> SwapPop(set.order, a),
     status |-> [set.status EXCEPT ![a] = ZeroStatus]]
===============================================================================
