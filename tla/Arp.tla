-------------------------------- MODULE Arp --------------------------------
(* arp.c: the address cache, shared by the threads that send (arp_resolve)  *)
(* and the interrupt thread (arp_input, arp_timer).  Every action is one     *)
(* critical section of the ARP mutex; arp_input has two.                     *)
EXTENDS Integers, FiniteSets

CONSTANTS
  CacheSize,   \* ARP_CACHE_SIZE
  Timeout,     \* ARP_CACHE_TIMEOUT, in instants of the clock
  Addrs,       \* protocol addresses
  Macs,        \* hardware addresses
  NoMac,       \* the cleared hardware address
  MaxClock     \* bound: the clock stops there

ASSUME CacheAssumption ==
  /\ CacheSize \in Nat \ {0}
  /\ Timeout \in Nat
  /\ MaxClock \in Nat
  /\ NoMac \notin Macs

VARIABLES
  caches,   \* the cache
  clock,    \* the time of the last gettimeofday: no two of them are equal
  input,    \* the message arp_input has read but not inserted, or NoMsg
  heard     \* history: the hardware address each sender last announced

vars == <<caches, clock, input, heard>>

Index == 1..CacheSize

\* struct arp_cache; no entry is ever made ARP_CACHE_STATE_STATIC.
Entry == [state : {"FREE", "INCOMPLETE", "RESOLVED"}, pa : Addrs \cup {0},
          ha : Macs \cup {NoMac}, timestamp : Nat]

Cleared == [state |-> "FREE", pa |-> 0, ha |-> NoMac, timestamp |-> 0]

\* A message that passed the checks of its header: the sender's addresses, and
\* whether the target is the unicast address of the interface it came in by.
Msg == [spa : Addrs, sha : Macs, ours : BOOLEAN]
NoMsg == [spa |-> 0]

TypeOK ==
  /\ caches \in [Index -> Entry]
  /\ clock \in Nat
  /\ input \in Msg \cup {NoMsg}
  /\ heard \in [Addrs -> Macs \cup {NoMac}]

Init ==
  /\ caches = [i \in Index |-> Cleared]
  /\ clock = 0
  /\ input = NoMsg
  /\ heard = [a \in Addrs |-> NoMac]
-----------------------------------------------------------------------------
(* Cache functions *)

Used(i) == caches[i].state # "FREE"

Entries(pa) == {i \in Index : Used(i) /\ caches[i].pa = pa}

\* arp_cache_select
Select(pa, i) == i \in Entries(pa) /\ \A j \in Entries(pa) : i <= j

\* arp_cache_alloc: the first free entry, or the oldest one.
Alloc(i) ==
  \/ ~Used(i) /\ \A j \in 1..(i - 1) : Used(j)
  \/ /\ \A j \in Index : Used(j)
     /\ \A j \in Index \ {i} : caches[i].timestamp < caches[j].timestamp

\* gettimeofday
Now == clock + 1

Passes == Now <= MaxClock /\ clock' = Now

\* Mutant of Updated: the time of the entry stays.
UpdatedTimeless(i, ha) == [caches EXCEPT ![i] = [@ EXCEPT !.state = "RESOLVED", !.ha = ha]]

\* arp_cache_update of the entry that was selected.
Updated(i, ha) ==
  [caches EXCEPT ![i] = [@ EXCEPT !.state = "RESOLVED", !.ha = ha, !.timestamp = Now]]

\* arp_cache_insert
Inserted(i, pa, ha) ==
  [caches EXCEPT ![i] = [state |-> "RESOLVED", pa |-> pa, ha |-> ha, timestamp |-> Now]]
-----------------------------------------------------------------------------
(* Operations *)

\* arp_input, first critical section: a message updates the entry of its sender
\* or, when there is none and the message is for this host, waits to be inserted.
\* (The reply to a request changes nothing here.)
InputUpdate(m) ==
  /\ input = NoMsg
  /\ heard' = [heard EXCEPT ![m.spa] = m.sha]
  /\ \/ \E i \in Index :
          /\ Select(m.spa, i)
          /\ Passes
          /\ caches' = Updated(i, m.sha)
          /\ UNCHANGED input
     \/ /\ Entries(m.spa) = {}
        /\ input' = IF m.ours THEN m ELSE NoMsg
        /\ UNCHANGED <<caches, clock>>

\* arp_input, second critical section.
InputInsert ==
  /\ input # NoMsg
  /\ \E i \in Index :
       /\ Alloc(i)
       /\ Passes
       /\ caches' = Inserted(i, input.spa, input.sha)
  /\ input' = NoMsg
  /\ UNCHANGED heard

\* Mutant of Resolve: two threads may both find no entry and both make one.
ResolveTwice(pa) ==
  /\ \E i \in Index :
       /\ Alloc(i)
       /\ Passes
       /\ caches' = [caches EXCEPT ![i] = [@ EXCEPT !.state = "INCOMPLETE", !.pa = pa,
                                                    !.timestamp = Now]]
  /\ UNCHANGED <<input, heard>>

\* arp_resolve finds no entry: it makes one, which keeps the hardware address
\* of the entry it replaces, and sends a request.  When there is an entry it
\* changes nothing.
Resolve(pa) ==
  /\ Entries(pa) = {}
  /\ \E i \in Index :
       /\ Alloc(i)
       /\ Passes
       /\ caches' = [caches EXCEPT ![i] = [@ EXCEPT !.state = "INCOMPLETE", !.pa = pa,
                                                    !.timestamp = Now]]
  /\ UNCHANGED <<input, heard>>

\* arp_timer
Timer ==
  LET expired == {i \in Index : Used(i) /\ clock - caches[i].timestamp > Timeout} IN
  /\ input = NoMsg
  /\ expired # {}
  /\ caches' = [i \in Index |-> IF i \in expired THEN Cleared ELSE caches[i]]
  /\ UNCHANGED <<clock, input, heard>>

\* Time passes.
Tick ==
  /\ Passes
  /\ UNCHANGED <<caches, input, heard>>

Next ==
  \/ \E m \in Msg : InputUpdate(m)
  \/ InputInsert
  \/ \E pa \in Addrs : Resolve(pa)
  \/ Timer
  \/ Tick

Spec == Init /\ [][Next]_vars
-----------------------------------------------------------------------------
(* Properties *)

\* What arp_resolve answers for an address is what its owner announced last,
\* although an entry may exist twice (a thread resolves the address between the
\* two critical sections of arp_input) and entries are evicted and expire.
LatestHeard ==
  \A pa \in Addrs, i \in Index :
    Select(pa, i) /\ caches[i].state = "RESOLVED" => caches[i].ha = heard[pa]

\* An address never has more than two entries, and the second one only from the
\* race in arp_input: it never has two that are both INCOMPLETE.
FewDuplicates ==
  \A pa \in Addrs :
    /\ Cardinality(Entries(pa)) <= 2
    /\ Cardinality({i \in Entries(pa) : caches[i].state = "INCOMPLETE"}) <= 1
=============================================================================
