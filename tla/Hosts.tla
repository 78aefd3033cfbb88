-------------------------------- MODULE Hosts --------------------------------
(* The host metrics over a host table that changes while it is read:        *)
(* scrapeHosts and scrapeHostInfo of receiver/fritzbox/scraper.go, FetchURL *)
(* of tr064/client.go.                                                      *)
(*                                                                          *)
(* hosts.active takes one call for the count and one per index; hosts.info  *)
(* one for a path that holds a session, and a fetch of that path.  Between  *)
(* any two of them hosts join and leave, wake and sleep, and sessions end   *)
(* (external: a table whose indexes have no gaps; new hosts come last).     *)
(* Scraper has the same calls over a fixed table, with what of their        *)
(* failures is reported and logged.                                         *)
EXTENDS Naturals, Sequences, FiniteSets, SequencesExt, Functions

CONSTANTS
    Names,        \* the hosts
    MaxChanges,   \* bound: changes of the table during one enumeration
    MaxSessions   \* bound: sessions of the device that end

ASSUME NamesAssumption  == IsFiniteSet(Names)
ASSUME BoundsAssumption == MaxChanges \in Nat /\ MaxSessions \in Nat

VARIABLES
    table,     \* the device's hosts in the order of their indexes
    up,        \* the active ones
    sid,       \* the session of the device, a number
    opted,     \* the opt-in metrics the configuration enables, fixed
    pc,        \* the call the scrape waits for
    total,     \* scrapeHosts: total
    index,     \* scrapeHosts: i
    counted,   \* the hosts found active, in order: scrapeHosts' active is
               \* the length
    path,      \* scrapeHostInfo: the session in path
    recorded,  \* the metrics of the scrape with a point
    changes, leaves,  \* changes and departures since the count
    steady,    \* the hosts active since the count
    hit        \* did the path or the fetch fail, or the session end between?
               \* (the last four for the properties only)

device  == <<table, up, sid>>
history == <<changes, leaves, steady>>
vars == <<table, up, sid, opted, pc, total, index, counted, path, recorded,
          changes, leaves, steady, hit>>

TypeOK ==
    /\ table \in Seq(Names) /\ IsInjective(table)
    /\ up \subseteq Range(table) /\ steady \subseteq up
    /\ sid \in 0 .. MaxSessions /\ path \in 0 .. sid
    /\ opted \subseteq {"hosts_active", "hosts_info"}
    /\ pc \in {"idle", "count", "entry", "path", "fetch"}
    /\ total \in Nat /\ index \in 0 .. total
    /\ counted \in Seq(Names) /\ Len(counted) <= index
    /\ recorded \subseteq {"hosts_total"} \cup opted
    /\ changes \in 0 .. MaxChanges /\ leaves \in 0 .. changes
    /\ hit \in BOOLEAN

Tables == {t \in UNION {[1 .. n -> Names] : n \in 0 .. Cardinality(Names)} :
              IsInjective(t)}

Init ==
    /\ table \in Tables /\ up \in SUBSET Range(table) /\ sid = 0
    /\ opted \in SUBSET {"hosts_active", "hosts_info"}
    /\ pc = "idle" /\ total = 0 /\ index = 0 /\ counted = <<>> /\ path = 0
    /\ recorded = {} /\ changes = 0 /\ leaves = 0 /\ steady = {} /\ hit = FALSE

-----------------------------------------------------------------------------
(* scrapeHosts.                                                             *)

\* Where a scrape goes when scrapeHosts has returned.
AfterHosts == IF "hosts_info" \in opted THEN "path" ELSE "idle"

Begin ==
    /\ pc = "idle"
    /\ pc' = "count" /\ recorded' = {} /\ counted' = <<>> /\ hit' = FALSE
    /\ total' = 0 /\ index' = 0
    /\ changes' = 0 /\ leaves' = 0 /\ steady' = {}
    /\ UNCHANGED <<device, opted, path>>

\* The head of the loop: the next entry, or the point after the last one.
Loop(i, n, points) ==
    /\ index' = i
    /\ \/ /\ i < n
          /\ pc' = "entry" /\ recorded' = points
       \/ /\ i >= n
          /\ pc' = AfterHosts /\ recorded' = points \cup {"hosts_active"}

\* Mutant: indexes taken to start at one, as Index does in the host list.
CountedFromOne ==
    /\ pc = "count"
    /\ total' = Len(table) /\ steady' = up
    /\ IF "hosts_active" \in opted THEN Loop(1, Len(table), {"hosts_total"})
       ELSE pc' = AfterHosts /\ recorded' = {"hosts_total"} /\ UNCHANGED index
    /\ UNCHANGED <<device, opted, counted, path, changes, leaves, hit>>

\* GetHostNumberOfEntries answers.
Counted ==
    /\ pc = "count"
    /\ total' = Len(table) /\ steady' = up
    /\ IF "hosts_active" \in opted THEN Loop(0, Len(table), {"hosts_total"})
       ELSE pc' = AfterHosts /\ recorded' = {"hosts_total"} /\ UNCHANGED index
    /\ UNCHANGED <<device, opted, counted, path, changes, leaves, hit>>

\* GetGenericHostEntry answers for the index.
Entry ==
    /\ pc = "entry" /\ index < Len(table)
    /\ LET host == table[index + 1]
       IN  counted' = IF host \in up THEN Append(counted, host) ELSE counted
    /\ Loop(index + 1, total, recorded)
    /\ UNCHANGED <<device, opted, total, path, history, hit>>

\* Mutant: an entry that cannot be read is passed over.
PassedOver ==
    /\ pc = "entry"
    /\ Loop(index + 1, total, recorded)
    /\ UNCHANGED <<device, opted, total, counted, path, history, hit>>

\* GetGenericHostEntry fails, for want of an entry or for any other reason:
\* there is no point, and the error is appended.
NoEntry ==
    /\ pc = "entry"
    /\ pc' = AfterHosts
    /\ UNCHANGED <<device, opted, total, index, counted, path, recorded,
                   history, hit>>

-----------------------------------------------------------------------------
(* scrapeHostInfo and FetchURL.                                             *)

\* Mutant: the path of an earlier scrape is used again.
PathKept ==
    /\ pc = "path"
    /\ pc' = "fetch" /\ path' = IF path = 0 THEN sid ELSE path
    /\ UNCHANGED <<device, opted, total, index, counted, recorded, history,
                   hit>>

\* X_AVM-DE_GetHostListPath answers with a path of the session.
Path ==
    /\ pc = "path"
    /\ pc' = "fetch" /\ path' = sid
    /\ UNCHANGED <<device, opted, total, index, counted, recorded, history,
                   hit>>

\* The device serves the list to its session only; a row is recorded for each
\* host of the list.
Fetched ==
    /\ pc = "fetch"
    /\ pc' = "idle"
    /\ recorded' = IF path = sid /\ table # <<>>
                   THEN recorded \cup {"hosts_info"} ELSE recorded
    /\ UNCHANGED <<device, opted, total, index, counted, path, history, hit>>

\* A call or the fetch fails, or its answer is of no use (no number, an empty
\* path, no list): the function returns.
Fails ==
    /\ pc \in {"count", "path", "fetch"}
    /\ pc' = IF pc = "count" THEN AfterHosts ELSE "idle"
    /\ hit' = (pc # "count")
    /\ UNCHANGED <<device, opted, total, index, counted, path, recorded,
                   history>>

-----------------------------------------------------------------------------
(* The device's table and its sessions (external).                          *)

\* What the properties remember of a change during the enumeration.
Remember(left, gone) ==
    /\ IF pc = "entry"
       THEN changes < MaxChanges /\ changes' = changes + 1
            /\ leaves' = leaves + left
       ELSE UNCHANGED <<changes, leaves>>
    /\ steady' = steady \ gone
    /\ UNCHANGED <<sid, opted, pc, total, index, counted, path, recorded, hit>>

Joins(h) ==
    /\ h \notin Range(table)
    /\ table' = Append(table, h) /\ up' \in {up, up \cup {h}}
    /\ Remember(0, {})

Leaves(h) ==
    /\ \E k \in DOMAIN table : table[k] = h /\ table' = RemoveAt(table, k)
    /\ up' = up \ {h}
    /\ Remember(1, {h})

Wakes(h) ==
    /\ h \in Range(table) \ up
    /\ up' = up \cup {h} /\ UNCHANGED table
    /\ Remember(0, {})

Sleeps(h) ==
    /\ h \in up
    /\ up' = up \ {h} /\ UNCHANGED table
    /\ Remember(0, {h})

SessionEnds ==
    /\ sid < MaxSessions /\ sid' = sid + 1
    /\ hit' = (hit \/ pc = "fetch")
    /\ UNCHANGED <<table, up, opted, pc, total, index, counted, path, recorded,
                   history>>

Scrape == Begin \/ Counted \/ Entry \/ NoEntry \/ Path \/ Fetched \/ Fails

Next ==
    \/ Scrape
    \/ \E h \in Names : Joins(h) \/ Leaves(h) \/ Wakes(h) \/ Sleeps(h)
    \/ SessionEnds

Spec == Init /\ [][Next]_vars

-----------------------------------------------------------------------------
(* Properties.                                                              *)

RecordsActive ==
    "hosts_active" \notin recorded /\ "hosts_active" \in recorded'

\* The number recorded for hosts.active is at most as far from the number of
\* hosts active at that moment as the table changed since it was counted, for
\* whatever shifting of indexes (scrapeHosts).
ActiveNearTruth ==
    [][RecordsActive =>
          LET n == Len(counted') IN
          /\ n <= Cardinality(up') + changes'
          /\ Cardinality(up') <= n + changes']_vars

\* A host active from the count on is in hosts.active, and only once, unless
\* another one left and shifted it: one departure hides one host at most.  An
\* enumeration that lost an entry to a failure records nothing.
SteadyHostsCounted ==
    [][RecordsActive =>
          /\ Cardinality(steady' \ Range(counted')) <= leaves'
          /\ leaves' = 0 => IsInjective(counted')]_vars

\* hosts.info is missing from a scrape that asked for it only if one of its
\* own calls failed, its session ended in between, or there is no host: an
\* ended session costs no later scrape anything (scrapeHostInfo).
HostInfoOnlyLostToItsScrape ==
    [][pc # "idle" /\ pc' = "idle" /\ "hosts_info" \in opted \ recorded'
          => hit' \/ table = <<>>]_vars
=============================================================================
