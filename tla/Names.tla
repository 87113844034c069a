-------------------------------- MODULE Names --------------------------------
(* The names of hosts and services in tcptrace: names.c asks the resolver    *)
(* once per address and keeps the answer in the caches of gcache.c, tables   *)
(* of entries that hang, doubly linked by index, on hash chains, with the    *)
(* unused ones on a free list.  A full table gives up the entry that was     *)
(* read least recently, by a clock of whole seconds.                         *)
(* The entries of names.c never expire (its caches have life 0) and nothing  *)
(* removes or purges them, so those calls of gcache.c are left out.          *)
EXTENDS Integers, Sequences, FiniteSets

CONSTANTS
  Hosts, Ports,   \* addresses, and the ports below 1024 (a larger one is printed as a number)
  Resolver,       \* [Hosts \cup Ports -> name]: gethostbyaddr and getservbyport, or the number itself
  Length,         \* [name -> bytes]
  HostBuffer,     \* bytes of name_buf
  PortBuffer,     \* bytes of port_buf
  MaxResult,      \* CA_MAXRES
  MaxEntries,     \* entries of a cache
  HashSize,       \* chains of a cache
  Hash,           \* [Hosts \cup Ports -> Nat]: cahash
  MaxTime         \* bound: the last second modelled

ASSUME NamesAssumption ==
  /\ MaxEntries \in Nat \ {0} /\ HashSize \in Nat \ {0}
  /\ MaxResult \in Nat
  /\ \A key \in Hosts \cup Ports : Hash[key] \in Nat /\ Length[Resolver[key]] \in Nat
  /\ "none" \notin Hosts \cup Ports   \* what an empty entry holds is no address

VARIABLES
  caches,   \* catab: the "host" and the "service" cache, << >> before the first use
  seconds,      \* time()
  question,    \* the last question: a sequence of keys
  answer,   \* and its answer
  reused    \* some entry was overwritten in place

namesVars == <<caches, seconds, question, answer, reused>>

Slots == 1..MaxEntries
Entry == [inuse |-> FALSE, key |-> "none", result |-> "none", access |-> 0, prev |-> 0, next |-> 0]

\* cacreate: index 0 stands for "no entry", and is written to like one
cacreate ==
  [entries |-> [ix \in 0..MaxEntries |-> [Entry EXCEPT !.next = IF ix \in 1..(MaxEntries - 1) THEN ix + 1 ELSE 0]],
   chains  |-> [h \in 0..(HashSize - 1) |-> 0],
   free    |-> 1,
   nument  |-> 0]

ChainOf(key) == Hash[key] % HashSize

\* caclear: every field is zeroed, the links of the entry's chain too
caclear(cb, ix) == [cb EXCEPT !.entries[ix] = Entry]

\* as if the entry behind were left pointing at the one that goes
caunlinkForward(cb, ix) ==
  LET e == cb.entries[ix]
      out == IF e.prev = 0 THEN [cb EXCEPT !.chains[ChainOf(e.key)] = e.next]
                           ELSE [cb EXCEPT !.entries[e.prev].next = e.next]
  IN [caclear(out, ix) EXCEPT !.entries[ix].next = cb.free, !.free = ix, !.nument = @ - 1]

\* caunlink: out of its chain, onto the free list; its chain is found by its hash
caunlink(cb, ix) ==
  LET e == cb.entries[ix]
      out == IF e.prev = 0 THEN [cb EXCEPT !.chains[ChainOf(e.key)] = e.next]
                           ELSE [cb EXCEPT !.entries[e.prev].next = e.next]
      cleared == caclear([out EXCEPT !.entries[e.next].prev = e.prev], ix)
  IN [cleared EXCEPT !.entries[ix].next = cb.free, !.free = ix, !.nument = @ - 1]

\* cadeleteold: the first of those read longest ago
cadeleteold(cb) ==
  LET oldest(ix) == \A j \in Slots : /\ cb.entries[ix].access <= cb.entries[j].access
                                     /\ j < ix => cb.entries[ix].access < cb.entries[j].access
  IN caunlink(cb, CHOOSE ix \in Slots : oldest(ix))

\* cagetfree: <<the cache, the slot>>
cagetfree(cb) ==
  LET room == IF cb.free = 0 THEN cadeleteold(cb) ELSE cb
  IN <<[room EXCEPT !.free = room.entries[room.free].next, !.nument = @ + 1], room.free>>

\* the entries of a chain from ix on; a chain that closes on itself is walked no further than it is long
Chain(cb, ix) ==
  LET at[n \in 0..MaxEntries] ==
        IF n = 0 THEN ix
        ELSE LET before == at[n - 1] IN IF before = 0 THEN 0 ELSE cb.entries[before].next
  IN [n \in 1..Cardinality({m \in 0..MaxEntries : at[m] # 0}) |-> at[n - 1]]
ChainFor(cb, key) == Chain(cb, cb.chains[ChainOf(key)])

\* cagetindex: the first entry of the chain with this key, 0 if none
cagetindex(cb, key) ==
  LET chain == ChainFor(cb, key)
      hits == {i \in DOMAIN chain : cb.entries[chain[i]].key = key}
  IN IF hits = {} THEN 0 ELSE chain[CHOOSE i \in hits : \A j \in hits : i <= j]

\* cainsert: an entry with this key is cleared and filled again where it stands
cainsert(cb, key, result) ==
  LET old == cagetindex(cb, key)
      got == cagetfree(cb)
      ix == IF old # 0 THEN old ELSE got[2]
      head == got[1].chains[ChainOf(key)]
      placed == IF old # 0 THEN caclear(cb, old)
                ELSE [got[1] EXCEPT !.entries[ix].prev = 0, !.entries[ix].next = head,
                                    !.entries[head].prev = ix, !.chains[ChainOf(key)] = ix]
  IN IF Length[result] > MaxResult THEN cb
     ELSE [placed EXCEPT !.entries[ix].inuse = TRUE, !.entries[ix].key = key,
                         !.entries[ix].result = result, !.entries[ix].access = seconds]

\* calookup: a result longer than the caller's buffer is no hit
Hit(cb, key, buffer) ==
  LET ix == cagetindex(cb, key) IN ix # 0 /\ Length[cb.entries[ix].result] <= buffer

\* HostName and ServiceName: <<the cache afterwards, the name>>
Resolved(cb, key, buffer) ==
  LET made == IF cb = << >> THEN cacreate ELSE cb[1]
      ix == cagetindex(made, key)
  IN IF Hit(made, key, buffer)
     THEN <<<<[made EXCEPT !.entries[ix].access = seconds]>>, made.entries[ix].result>>
     ELSE <<<<cainsert(made, key, Resolver[key])>>, Resolver[key]>>

Refills(cb, key, buffer) ==
  cb # << >> /\ cagetindex(cb[1], key) # 0 /\ ~Hit(cb[1], key, buffer) /\ Length[Resolver[key]] <= MaxResult

-----------------------------------------------------------------------------
NamesInit ==
  /\ caches = [host |-> << >>, service |-> << >>]
  /\ seconds = 0
  /\ question = << >>
  /\ answer = << >>
  /\ reused = FALSE

HostName(a) ==
  LET got == Resolved(caches.host, a, HostBuffer)
  IN /\ caches' = [caches EXCEPT !.host = got[1]]
     /\ question' = <<a>>
     /\ answer' = <<got[2]>>
     /\ reused' = (reused \/ Refills(caches.host, a, HostBuffer))
     /\ UNCHANGED seconds

\* EndpointName: the host, then the service
EndpointName(a, p) ==
  LET host == Resolved(caches.host, a, HostBuffer)
      service == Resolved(caches.service, p, PortBuffer)
  IN /\ caches' = [host |-> host[1], service |-> service[1]]
     /\ question' = <<a, p>>
     /\ answer' = <<host[2], service[2]>>
     /\ reused' = (reused \/ Refills(caches.host, a, HostBuffer) \/ Refills(caches.service, p, PortBuffer))
     /\ UNCHANGED seconds

\* time passes between two packets
Second ==
  /\ seconds < MaxTime
  /\ seconds' = seconds + 1
  /\ UNCHANGED <<caches, question, answer, reused>>

NamesNext ==
  \/ \E a \in Hosts : HostName(a)
  \/ \E a \in Hosts, p \in Ports : EndpointName(a, p)
  \/ Second
NamesSpec == NamesInit /\ [][NamesNext]_namesVars

-----------------------------------------------------------------------------
CacheIsWhole(cb) ==
  LET chain(h) == Chain(cb, cb.chains[h])
      free == Chain(cb, cb.free)
      used == {ix \in Slots : cb.entries[ix].inuse}
      on(h) == {chain(h)[i] : i \in DOMAIN chain(h)}
  IN /\ \A h \in DOMAIN cb.chains :
          /\ Cardinality(on(h)) = Len(chain(h))
          /\ on(h) = {ix \in used : ChainOf(cb.entries[ix].key) = h}
          /\ \A i \in DOMAIN chain(h) : cb.entries[chain(h)[i]].prev = (IF i = 1 THEN 0 ELSE chain(h)[i - 1])
     /\ {free[i] : i \in DOMAIN free} = Slots \ used
     /\ Len(free) = MaxEntries - Cardinality(used)
     /\ cb.nument = Cardinality(used)
     /\ \A i, j \in used : i # j => cb.entries[i].key # cb.entries[j].key

(* Every question is answered with the name the resolver gives for that very *)
(* address or port, through collisions and evictions; and the table stays    *)
(* whole (each used entry once on the chain of its key, linked both ways,    *)
(* the others free, no key twice) unless an entry was filled again in place, *)
(* where caclear zeroes the links of the chain it stands on (gcache.c:348).  *)
(* names.c does that to a name that is too long for the caller's buffer and  *)
(* so is never a hit; a chain may then close on itself, and cagetindex walks *)
(* it for ever.                                                               *)
NamesAreKept ==
  /\ answer = [i \in DOMAIN question |-> Resolver[question[i]]]
  /\ ~reused => \A c \in {"host", "service"} : caches[c] # << >> => CacheIsWhole(caches[c][1])
=============================================================================
