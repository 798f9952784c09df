------------------------------- MODULE Events --------------------------------
(* `stellar events`: a user pages through the events of some contracts, one   *)
(* command after the other, while the network emits events and the aliases    *)
(* that stand for the contracts are changed.                                  *)
EXTENDS Naturals, FiniteSets, SequencesExt

CONSTANTS
  Contracts,
  Aliases,
  Segments,    \* values a topic may have
  MaxSegments, \* bound: segments of a topic filter that are tried
  MaxEvents,   \* bound: events emitted
  Counts,      \* the --count given
  MaxPages     \* bound: commands run

Star == "*"
Bad == "not base64"
None == "none"

SegmentsAssumption == {Star, Bad} \cap Segments = {}

TopicFilters == SeqOf(Segments \cup {Star, Bad}, MaxSegments) \ {<<>>}
Kinds == {"contract", "system"}
Emitted == [contract : Contracts, topics : {<<s>> : s \in Segments}, kind : Kinds]

(* The command line; no id and no topic is no filter.                         *)
Lines == [ids : {S \in SUBSET (Contracts \cup Aliases) : Cardinality(S) <= 1},
          topics : {{}} \cup {{t} : t \in TopicFilters}, kind : {"all"} \cup Kinds,
          count : Counts]

VARIABLES
  events,    \* the events of the network, oldest first
  aliases,   \* the contract of each alias, or None
  line,      \* the command the user repeats
  cursor,    \* the last event printed; 0 before the first page
  pc, ids,   \* the running command, the contracts it asks for
  asked,     \* what its aliases meant when they were resolved
  printed,   \* the events printed so far, by their place
  shown,     \* those of the last page
  pages

vars == <<events, aliases, line, cursor, pc, ids, asked, printed, shown, pages>>

Init ==
  /\ events = <<>>
  /\ aliases \in [Aliases -> Contracts \cup {None}]
  /\ line \in Lines
  /\ cursor = 0 /\ pc = "idle" /\ ids = {} /\ asked = {} /\ printed = <<>> /\ shown = {} /\ pages = 0

(* run: the topics are checked, segment by segment.                           *)
ValidTopic(t) == \A i \in DOMAIN t : i - 1 <= 4 /\ t[i] # Bad
ValidTopics == \A t \in line.topics : ValidTopic(t)

Run ==
  /\ pc \in {"idle", "printed"} /\ pages < MaxPages
  /\ pages' = pages + 1
  /\ pc' = IF ValidTopics THEN "resolve" ELSE "failed"
  /\ UNCHANGED <<events, aliases, line, cursor, ids, asked, printed, shown>>

(* resolve_contract_id of one id.                                             *)
Resolve(i) == IF i \in Contracts THEN i ELSE aliases[i]

ResolvedFound == <<{Resolve(i) : i \in line.ids} \ {None}, TRUE>>

(* All ids, or an error when one of them is not known.                        *)
Resolved == <<{Resolve(i) : i \in line.ids}, \A i \in line.ids : Resolve(i) # None>>

ResolveIds ==
  /\ pc = "resolve"
  /\ ids' = Resolved[1]
  /\ asked' = {Resolve(i) : i \in line.ids}
  /\ pc' = IF Resolved[2] THEN "ask" ELSE "failed"
  /\ UNCHANGED <<events, aliases, line, cursor, printed, shown, pages>>

(* What a filter lets through.                                                *)
MatchesTopic(e, t) ==
  Len(t) = Len(e.topics) /\ \A i \in DOMAIN t : t[i] \in {Star, e.topics[i]}
Matches(e, cs) ==
  /\ cs = {} \/ e.contract \in cs
  /\ line.topics = {} \/ \E t \in line.topics : MatchesTopic(e, t)
  /\ line.kind \in {"all", e.kind}

(* The server: a page is in the order of history, and what matches after the  *)
(* start is either on it or comes after its count events.                     *)
Pages(start, cs) ==
  LET found == {i \in DOMAIN events : i > start /\ Matches(events[i], cs)}
  IN  {page \in UNION {[1 .. n -> found] : n \in 0 .. line.count} :
         /\ \A i, j \in DOMAIN page : i < j => page[i] < page[j]
         /\ \A e \in found : e \in Range(page) \/
              (Len(page) = line.count /\ \A i \in DOMAIN page : page[i] < e)}

(* A page that always starts at --start-ledger.                               *)
StartOver == 0

(* start: --start-ledger for the first page, then --cursor with the id of the *)
(* last event.                                                                *)
Start == cursor

GetEvents ==
  /\ pc = "ask"
  /\ \E page \in Pages(Start, ids) :
       /\ printed' = printed \o page
       /\ shown' = Range(page)
       /\ cursor' = IF page = <<>> THEN cursor ELSE Last(page)
  /\ pc' = "printed"
  /\ UNCHANGED <<events, aliases, line, ids, asked, pages>>

(* The network and the other commands.                                        *)
Emit ==
  /\ Len(events) < MaxEvents
  /\ \E e \in Emitted : events' = Append(events, e)
  /\ UNCHANGED <<aliases, line, cursor, pc, ids, asked, printed, shown, pages>>

SetAlias ==
  /\ \E a \in line.ids \cap Aliases, c \in Contracts \cup {None} :
       aliases' = [aliases EXCEPT ![a] = c]
  /\ UNCHANGED <<events, line, cursor, pc, ids, asked, printed, shown, pages>>

Next == Run \/ ResolveIds \/ GetEvents \/ Emit \/ SetAlias

EventsSpec == Init /\ [][Next]_vars

-----------------------------------------------------------------------------
(* The pages are read in the order of history: no event is printed twice, and *)
(* with a fixed set of contracts none that matches is passed over.            *)
PagesInOrder ==
  /\ \A i, j \in DOMAIN printed : i < j => printed[i] < printed[j]
  /\ line.ids \subseteq Contracts =>
       \A i \in 1 .. cursor : Matches(events[i], line.ids) => i \in Range(printed)

(* A page holds events of the contracts that were named, and the events of    *)
(* all contracts only when none was named; an alias that is gone is an error. *)
OnlyAsked ==
  pc = "printed" /\ line.ids # {} => \A i \in shown : events[i].contract \in asked

=============================================================================
