------------------------------ MODULE WebCrawl ------------------------------
(***************************************************************************)
(* One crawl of a website: what the web connector's discover() requests,   *)
(* in which order, and which pages it gives to the sync.                   *)
(* (connectors/sources/web.py.)                                            *)
(*                                                                         *)
(* The site holds still during the crawl; what a page is like is chosen    *)
(* when it is requested.  A page is abstracted to how it answers, what it  *)
(* says, the id it gives itself (its canonical URL) and where it links to. *)
(***************************************************************************)
EXTENDS Naturals, SequencesExt

CONSTANTS
  Urls,       \* normalized
  Outside,    \* URLs the source's domains and patterns exclude
  Earlier,    \* URLs with a record from an earlier crawl, and an ETag in it
  Seeds,      \* start URLs, then what the sitemaps list: a sequence without repetition
  Aliases,    \* URLs that pages may call their own
  Contents,   \* what a page may say
  MaxDepth,   \* max_depth
  Limit,      \* max_pages
  MaxLinks,   \* bound on the links of a page
  Nothing     \* no content

CrawlAssumption ==
  /\ Outside \subseteq Urls /\ Seeds \in Seq(Urls)
  /\ \A i, j \in DOMAIN Seeds : Seeds[i] = Seeds[j] => i = j
  /\ Earlier \union Aliases \subseteq Urls \ Outside
  /\ MaxDepth \in Nat /\ Limit \in Nat \ {0} /\ Nothing \notin Contents

VARIABLES
  page,     \* history: how each URL that was requested answered
  queue,    \* URLs to crawl, with their depth
  queued,   \* URLs that were ever in the queue, or found to be outside
  found,    \* the documents yielded, in order
  crawl     \* "running", "stopped" (the run was cancelled), "complete"

vars == <<page, queue, queued, found, crawl>>

\* same: 304; nothing: 400 and above, no answer after the retries, barred by
\* robots.txt, redirected outside, empty or of an unknown type
Answers == {"none", "page", "same", "nothing"}
Page == [answer: Answers, says: Contents \union {Nothing}, id: Urls, links: SUBSET Urls]
Queued == [url: Urls, depth: 0..MaxDepth]
Found == [url: Urls, depth: 0..MaxDepth, id: Urls, says: Contents \union {Nothing}]

Init ==
  /\ page = [u \in Urls |-> [answer |-> "none", says |-> Nothing, id |-> u, links |-> {}]]
  /\ queue = [i \in 1..Len(Seeds) |-> [url |-> Seeds[i], depth |-> 0]]
  /\ queued = ToSet(Seeds)
  /\ found = <<>>
  /\ crawl = "running"

Goes == crawl = "running" /\ queue # <<>> /\ Len(found) < Limit

\* Mutant of Taken: the newest first.
TakenLast == [next |-> Last(queue), rest |-> Front(queue)]

\* popleft
Taken == [next |-> Head(queue), rest |-> Tail(queue)]

LinkSets == {links \in SUBSET Urls : IsFiniteSet(links) /\ Cardinality(links) <= MaxLinks}

\* What a request may learn of u: a record's links come with a 304.
Responses(u) ==
  [answer: {"page"}, says: Contents, id: {u} \union Aliases, links: LinkSets]
  \union [answer: {"nothing"}, says: {Nothing}, id: {u}, links: {{}}]
  \union (IF u \in Earlier THEN [answer: {"same"}, says: {Nothing}, id: {u}, links: LinkSets] ELSE {})

IsDocument(p) == p.answer \in {"page", "same"}

\* seen_ids and seen_hashes; the hash of an unchanged page is its ETag.
Repeated(p) ==
  \E i \in DOMAIN found : \/ found[i].id = p.id
                          \/ found[i].says = p.says /\ p.says # Nothing

\* Mutant of NewLinks: pages at the depth limit are expanded too.
DeepLinks(p, depth) == p.links \ queued

\* The links that were never queued: the outside ones are only remembered.
NewLinks(p, depth) == IF depth < MaxDepth THEN p.links \ queued ELSE {}

Skip ==
  /\ Goes /\ Taken.next.url \in Outside
  /\ queue' = Taken.rest
  /\ UNCHANGED <<page, queued, found, crawl>>

\* _crawl_one and the rest of the loop's body.
Visit ==
  LET u == Taken.next.url
      depth == Taken.next.depth
  IN /\ Goes /\ u \notin Outside
     /\ \E p \in Responses(u) :
          /\ page' = [page EXCEPT ![u] = p]
          /\ IF ~IsDocument(p) \/ Repeated(p)
             THEN queue' = Taken.rest /\ UNCHANGED <<queued, found>>
             ELSE /\ found' = Append(found, [url |-> u, depth |-> depth, id |-> p.id, says |-> p.says])
                  /\ queued' = queued \union NewLinks(p, depth)
                  /\ \E links \in SetToSeqs(NewLinks(p, depth) \ Outside) :   \* in page order
                       queue' = Taken.rest \o
                         [i \in 1..Len(links) |-> [url |-> links[i], depth |-> depth + 1]]
     /\ UNCHANGED crawl

\* cancelled(), asked before every page.
Stop ==
  /\ Goes
  /\ crawl' = "stopped"
  /\ UNCHANGED <<page, queue, queued, found>>

Finish ==
  /\ crawl = "running" /\ ~Goes
  /\ crawl' = "complete"
  /\ UNCHANGED <<page, queue, queued, found>>

Next == Skip \/ Visit \/ Stop \/ Finish
Spec == Init /\ [][Next]_vars

-----------------------------------------------------------------------------
\* Every variable has its type.
TypeOK ==
  /\ queued \subseteq Urls
  /\ page \in [Urls -> Page]
  /\ queue \in Seq(Queued) /\ found \in Seq(Found)
  /\ crawl \in {"running", "stopped", "complete"}

\* Reference: the URLs at most n links away from a start, through documents found.
Reach(links) ==
  LET within[n \in 0..MaxDepth] ==
        IF n = 0 THEN ToSet(Seeds)
        ELSE within[n - 1] \union UNION {links[u] : u \in within[n - 1]}
  IN within
Expanded == {found[i].url : i \in DOMAIN found}
Links == [u \in Urls |-> IF u \in Expanded THEN page[u].links ELSE {}]
Within == Reach(Links)

\* A page is crawled at its distance from the start URLs, however the links loop and
\* cross; so one within the depth limit is never missed for having been met first on a
\* longer way: a crawl that was not cut short has asked for every one of them.
EveryPageInReach ==
  /\ \A i \in DOMAIN found :
       /\ found[i].url \in Within[found[i].depth]
       /\ found[i].depth > 0 => found[i].url \notin Within[found[i].depth - 1]
  /\ crawl = "complete" /\ Len(found) < Limit =>
       {u \in Urls : page[u].answer # "none"} = Within[MaxDepth] \ Outside
=============================================================================
