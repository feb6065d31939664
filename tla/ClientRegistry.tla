--------------------------- MODULE ClientRegistry ---------------------------
(***************************************************************************)
(* DroidTvServer (tvserver/DroidTvServer.cpp): the table of client         *)
(* callbacks, indexed by a cookie that is also what a death notification   *)
(* carries.  setCallback, onEvent and handleServiceDeath each run under    *)
(* DroidTvServer::mLock, on different threads: a binder thread, whatever   *)
(* thread sends a TV event, and the thread binder reports deaths on.       *)
(*                                                                         *)
(* A client is one callback object; a process that restarts is a new one.  *)
(* A setCallback with an unknown type or a null callback changes no slot   *)
(* and is left out.                                                        *)
(***************************************************************************)
EXTENDS Integers, FiniteSets, FiniteSetsExt

CONSTANTS Clients,  \* callback objects
          Null      \* an empty sp<ITvServerCallback>

ASSUME RegistryAssumption ==
    /\ IsFiniteSet(Clients)
    /\ Null \notin Clients

VARIABLES slots,    \* mClients: cookie -> callback, on the keys present in the map
          alive,    \* clients whose process lives
          calls,    \* setCallback calls on their way to the server
          fresh,    \* clients that have not called setCallback yet
          links,    \* <<client, cookie>> registered with linkToDeath
          deaths,   \* death notifications on their way to the server
          missed    \* clients that were dead by the time linkToDeath was called

registryVars == <<slots, alive, calls, fresh, links, deaths, missed>>

Taken(s) == {k \in DOMAIN s : s[k] # Null}

RegistryInit ==
    /\ slots = <<>>
    /\ alive = Clients /\ calls = {} /\ fresh = Clients
    /\ links = {} /\ deaths = {} /\ missed = {}

-----------------------------------------------------------------------------
(* The clients and binder. *)

Call(c) ==
    /\ c \in fresh \cap alive
    /\ calls' = calls \cup {c}
    /\ fresh' = fresh \ {c}
    /\ UNCHANGED <<slots, alive, links, deaths, missed>>

\* Binder sends one notification for every link to the dead process.
Die(c) ==
    /\ c \in alive
    /\ alive' = alive \ {c}
    /\ deaths' = deaths \cup {l \in links : l[1] = c}
    /\ links' = {l \in links : l[1] # c}
    /\ UNCHANGED <<slots, calls, fresh, missed>>

-----------------------------------------------------------------------------
(* The server. *)

\* The keys setCallback's loop may reuse: mClients[i] creates a null entry
\* for a key that is not there.
Vacant(s) == {i \in 0..(Cardinality(DOMAIN s) - 1) : i \in DOMAIN s => s[i] = Null}

\* Faulty variant: the new client always goes behind the map's size.
CookieFor_Size(s) == Cardinality(DOMAIN s)

\* The first vacant key, or one past the last.
CookieFor(s) ==
    IF Vacant(s) = {} THEN Cardinality(DOMAIN s) ELSE Min(Vacant(s))

\* mClients[k] = e, which adds a missing entry.
Put(k, e) == [j \in DOMAIN slots \cup {k} |-> IF j = k THEN e ELSE slots[j]]

\* Faulty variant: the link is made before the cookie is chosen.
setCallback_EarlyLink(c) ==
    LET cookie == CookieFor(slots)
    IN  /\ c \in calls
        /\ calls' = calls \ {c}
        /\ slots' = Put(cookie, c)
        /\ links' = IF c \in alive THEN links \cup {<<c, Cardinality(DOMAIN slots)>>} ELSE links
        /\ missed' = IF c \in alive THEN missed ELSE missed \cup {c}
        /\ UNCHANGED <<alive, fresh, deaths>>

setCallback(c) ==
    LET cookie == CookieFor(slots)
    IN  /\ c \in calls
        /\ calls' = calls \ {c}
        /\ slots' = Put(cookie, c)
        /\ links' = IF c \in alive THEN links \cup {<<c, cookie>>} ELSE links
        /\ missed' = IF c \in alive THEN missed ELSE missed \cup {c}
        /\ UNCHANGED <<alive, fresh, deaths>>

\* Every null entry is erased and every client is called; one that answers
\* DEAD_OBJECT is erased too.  With the last reference to it binder drops a
\* notification it has not begun to deliver; serviceDied may be waiting for
\* mLock already.
onEvent ==
    LET dead == {i \in Taken(slots) : slots[i] \notin alive}
    IN  /\ DOMAIN slots # {}
        /\ slots' = [k \in Taken(slots) \ dead |-> slots[k]]
        /\ \E dropped \in SUBSET {d \in deaths : d[1] \in {slots[i] : i \in dead}} :
              deaths' = deaths \ dropped
        /\ UNCHANGED <<alive, calls, fresh, links, missed>>

\* Faulty variant: the entry is only unlinked.
handleServiceDeath_NoClear(c, cookie) ==
    /\ <<c, cookie>> \in deaths
    /\ deaths' = deaths \ {<<c, cookie>>}
    /\ links' = IF cookie \in Taken(slots) THEN {l \in links : l[1] # slots[cookie]} ELSE links
    /\ UNCHANGED <<slots, alive, calls, fresh, missed>>

\* The notification carries the cookie only: whoever has it by now is
\* unlinked and cleared.  mClients[cookie] creates a missing entry.
handleServiceDeath(c, cookie) ==
    /\ <<c, cookie>> \in deaths
    /\ deaths' = deaths \ {<<c, cookie>>}
    /\ links' = IF cookie \in Taken(slots) THEN {l \in links : l[1] # slots[cookie]} ELSE links
    /\ slots' = Put(cookie, Null)
    /\ UNCHANGED <<alive, calls, fresh, missed>>

Deaths == \E d \in deaths : handleServiceDeath(d[1], d[2])

RegistryNext ==
    \/ \E c \in Clients : Call(c) \/ Die(c) \/ setCallback(c)
    \/ onEvent
    \/ Deaths

RegistrySpec == RegistryInit /\ [][RegistryNext]_registryVars

\* Binder delivers every death notification.
RegistryFairSpec == RegistrySpec /\ WF_registryVars(Deaths)

-----------------------------------------------------------------------------
(* Properties. *)

RegistryTypeOK ==
    /\ DOMAIN slots \subseteq Nat /\ IsFiniteSet(DOMAIN slots)
    /\ \A k \in DOMAIN slots : slots[k] \in Clients \cup {Null}
    /\ alive \subseteq Clients /\ calls \subseteq Clients /\ fresh \subseteq Clients
    /\ links \subseteq Clients \X Nat /\ deaths \subseteq Clients \X Nat
    /\ missed \subseteq Clients

\* A new registration takes no other client's slot, although the map has
\* holes after onEvent's erase and the next key is computed from its size.
NobodyDisplaced ==
    [][\A c \in Clients : setCallback(c) =>
          \A k \in Taken(slots) : k \in Taken(slots') /\ slots'[k] = slots[k]]_registryVars

\* The death of every client in the table will be noticed under the cookie
\* it has: its link carries its slot's key, or the notification is on its way
\* with it; only a client that died before linkToDeath is found by the next
\* event alone.
DeathNoticed ==
    \A k \in Taken(slots) :
        \/ slots[k] \in alive /\ <<slots[k], k>> \in links
        \/ slots[k] \notin alive /\ <<slots[k], k>> \in deaths
        \/ slots[k] \in missed

\* A client that is dead leaves the table in the end, even when no event is
\* sent to it any more.
DeadLeave ==
    \A c \in Clients :
        (c \notin alive /\ c \notin missed /\ \E k \in Taken(slots) : slots[k] = c)
            ~> ~\E k \in Taken(slots) : slots[k] = c
=============================================================================
