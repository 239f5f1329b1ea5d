----------------------------- MODULE Registries -----------------------------
(***************************************************************************)
(* WorkloadRegistry.sol, ProviderRegistry.sol and ProviderMinter.sol: the   *)
(* lists the contracts keep beside their mappings, deletion by swapping     *)
(* with the last entry, and the one reward per device that halves.          *)
(* Arrays count from 0 in Solidity and from 1 here.                         *)
(***************************************************************************)
EXTENDS Naturals, FiniteSets, FiniteSetsExt, Sequences, SequencesExt

CONSTANTS
  Accounts, Devices, None,
  Base,               \* baseRewards: the amounts by tier
  HALVING_INTERVAL,
  MaxWorkloads        \* bound: registrations

RegistriesAssumption ==
  /\ None \notin Accounts /\ Base \subseteq Nat /\ HALVING_INTERVAL \in Nat \ {0} /\ MaxWorkloads \in Nat

Ids == 0 .. MaxWorkloads - 1

VARIABLES
  work,      \* workloads: owner (None: deleted or never there), status, placement
  list,      \* workloadIdList
  index,     \* workloadIdListIndex
  owned,     \* ownerWorkloadIds
  nextId,    \* nextWorkloadId
  device,    \* providersByDevice: owner and status
  devices,   \* deviceIdList
  claims,    \* per device: what was minted for it, in the order of the claims
  totalClaims

vars == <<work, list, index, owned, nextId, device, devices, claims, totalClaims>>

NoWork == [owner |-> None, active |-> FALSE, at |-> None]

Init ==
  /\ work = [i \in Ids |-> NoWork] /\ list = <<>> /\ index = [i \in Ids |-> 0]
  /\ owned = [a \in Accounts |-> <<>>] /\ nextId = 0
  /\ device = [d \in Devices |-> [owner |-> None, active |-> FALSE]] /\ devices = <<>>
  /\ claims = <<>> /\ totalClaims = 0

-----------------------------------------------------------------------------
(* WorkloadRegistry *)

registerWorkload(a) ==
  /\ nextId < MaxWorkloads
  /\ work' = [work EXCEPT ![nextId] = [owner |-> a, active |-> TRUE, at |-> None]]
  /\ owned' = [owned EXCEPT ![a] = Append(@, nextId)]
  /\ list' = Append(list, nextId) /\ index' = [index EXCEPT ![nextId] = Len(list) + 1]
  /\ nextId' = nextId + 1
  /\ UNCHANGED <<device, devices, claims, totalClaims>>

setActive(a, i, on) ==
  /\ work[i].owner = a /\ (on => ~work[i].active)
  /\ work' = [work EXCEPT ![i].active = on]
  /\ UNCHANGED <<list, index, owned, nextId, device, devices, claims, totalClaims>>

Deletable(a, i) == work[i].owner = a /\ ~work[i].active

\* Mutant: the moved entry keeps its old index.
MovedIndexKept(i, last) == [index EXCEPT ![i] = 0]

\* The index after a deletion: the last entry takes the place of the deleted one.
MovedIndex(i, last) == [index EXCEPT ![last] = IF last # i THEN index[i] ELSE @, ![i] = 0]

\* Mutant: the last entry is dropped and not moved.
PopOnly(s, k) == Front(s)

\* Swap the entry at k with the last one and pop.
SwapRemove(s, k) == Front([s EXCEPT ![k] = Last(s)])

deleteWorkload(a, i) ==
  /\ Deletable(a, i)
  /\ list' = SwapRemove(list, index[i]) /\ index' = MovedIndex(i, Last(list))
  /\ owned' = [owned EXCEPT ![a] = SwapRemove(@, CHOOSE k \in DOMAIN @ : @[k] = i)]
  /\ work' = [work EXCEPT ![i] = NoWork]
  /\ UNCHANGED <<nextId, device, devices, claims, totalClaims>>

recordPlacement(i, p) ==
  /\ work[i].owner # None /\ work[i].active
  /\ work' = [work EXCEPT ![i].at = p]
  /\ UNCHANGED <<list, index, owned, nextId, device, devices, claims, totalClaims>>

-----------------------------------------------------------------------------
(* ProviderRegistry *)

\* Mutant: a device may be registered again.
UnregisteredAny(d) == TRUE

Unregistered(d) == device[d].owner = None

registerProvider(a, d) ==
  /\ Unregistered(d)
  /\ device' = [device EXCEPT ![d] = [owner |-> a, active |-> TRUE]] /\ devices' = Append(devices, d)
  /\ UNCHANGED <<work, list, index, owned, nextId, claims, totalClaims>>

setProvider(a, d, on) ==
  /\ device[d].owner = a /\ (on => ~device[d].active)
  /\ device' = [device EXCEPT ![d].active = on]
  /\ UNCHANGED <<work, list, index, owned, nextId, devices, claims, totalClaims>>

-----------------------------------------------------------------------------
(* ProviderMinter *)

\* base >> n
Halved(base) ==
  LET after[n \in Nat] == IF n = 0 THEN base ELSE after[n - 1] \div 2
  IN after

\* Mutant: the epoch starts over.
RewardNow(base) == Halved(base)[totalClaims % (2 * HALVING_INTERVAL)]

\* _calculateReward(): base >> epoch, nothing from epoch 20 on.
calculateReward(base) ==
  LET epoch == totalClaims \div HALVING_INTERVAL
  IN IF epoch >= 20 THEN 0 ELSE Halved(base)[epoch]

claimRegistrationReward(a, d, base) ==
  /\ device[d].owner = a /\ \A k \in DOMAIN claims : claims[k].device # d
  /\ claims' = Append(claims, [device |-> d, to |-> a, base |-> base, amount |-> calculateReward(base)])
  /\ totalClaims' = totalClaims + 1
  /\ UNCHANGED <<work, list, index, owned, nextId, device, devices>>

Next ==
  \/ \E a \in Accounts :
       \/ registerWorkload(a)
       \/ \E i \in Ids : deleteWorkload(a, i) \/ \E on \in BOOLEAN : setActive(a, i, on)
       \/ \E d \in Devices : \/ registerProvider(a, d)
                             \/ \E on \in BOOLEAN : setProvider(a, d, on)
                             \/ \E b \in Base : claimRegistrationReward(a, d, b)
  \/ \E i \in Ids, p \in Accounts : recordPlacement(i, p)

Spec == Init /\ [][Next]_vars

-----------------------------------------------------------------------------
(* Properties. *)

TypeOK ==
  /\ \A i \in Ids : work[i].owner \in Accounts \cup {None} /\ index[i] \in 0 .. MaxWorkloads
  /\ IsInjective(devices) /\ ToSet(devices) = {d \in Devices : device[d].owner # None}
  /\ nextId \in 0 .. MaxWorkloads /\ totalClaims = Len(claims)

\* After any sequence of registrations and deletions by several owners the list holds each existing workload once,
\* at the place its index says: an index left behind would make a later deletion remove somebody else's entry.
ListExact ==
  /\ ToSet(list) = {i \in Ids : work[i].owner # None}
  /\ \A k \in DOMAIN list : index[list[k]] = k

\* Each owner's list holds exactly the owner's workloads.
OwnersExact ==
  \A a \in Accounts : IsInjective(owned[a]) /\ ToSet(owned[a]) = {i \in Ids : work[i].owner = a}

\* One claim per device, by its owner, and the reward of a tier never rises again.
RewardsFall ==
  \A j, k \in DOMAIN claims : j < k =>
     /\ claims[j].device # claims[k].device
     /\ claims[j].base = claims[k].base => claims[j].amount >= claims[k].amount

=============================================================================
