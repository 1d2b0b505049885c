---------------------------- MODULE NewsRetrieval ----------------------------
(* One-tool news retrieval (sourcedata/alpaca_news.py) and the rules its    *)
(* observations must pass before they are evidence (sourcedata/news.py).    *)
(* The provider's articles are published and edited while a host pages      *)
(* through them; the call for each page is an await, and everything up to   *)
(* the next call is one step.  A host keeps the observations it accepted    *)
(* and passes them as priors, so a changed article becomes a revision.      *)
(*                                                                          *)
(* A raw article is its text (headline and content), its mark (every other  *)
(* field) and its two clocks; digests are the digested values.  The request *)
(* covers articles created up to the decision cutoff.  Malformed JSON, and  *)
(* the source's policy, rights, publisher and URL, which the adapter itself *)
(* fixes to the authorized ones, are left out.                              *)
EXTENDS Integers, Sequences, FiniteSets, SequencesExt

CONSTANTS
    Nil,
    Articles,       \* provider article ids
    Texts,          \* what an article may say
    Marks,          \* what its other fields may be
    Cutoff,         \* the request's decision cutoff and window end
    PageLimits,     \* the values of request.max_pages
    Horizon,        \* bound: the last instant
    MaxEdits,       \* bound: edits of articles
    MaxRuns,        \* bound: retrievals
    Faulty          \* whether a page may come back with a token already seen

NewsAssumption ==
    /\ PageLimits \subseteq Nat \ {0} /\ Cutoff \in 0..Horizon /\ Faulty \in BOOLEAN

VARIABLES
    now,
    feed,           \* article -> its current raw form, Nil before publication
    edits, runs,
    held,           \* article -> the NewsObservation the host keeps, or Nil
    job             \* the retrieval under way or the last one

vars == <<now, feed, edits, runs, held, job>>

NoJob == [pc |-> "NONE", retrieved_at |-> 0, token |-> Nil, seen |-> {}, pages |-> 0, max_pages |-> 0,
          observations |-> <<>>, priors |-> <<>>, known |-> {}]

Init ==
    /\ now = 0
    /\ feed = [a \in Articles |-> Nil]
    /\ edits = 0 /\ runs = 0
    /\ held = [a \in Articles |-> Nil]
    /\ job = NoJob
-----------------------------------------------------------------------------
(* sourcedata/news.py: one observation and a batch of them.                 *)

clocks_ordered(o) == o.published <= o.available /\ o.available <= o.retrieved

\* Ids and texts are unique in a batch, and a revision's prior is in it, byte
\* for byte.  A link holds its prior's digest, so links cannot form a cycle.
_validate_batch_relationships(items) ==
    /\ \A m, n \in DOMAIN items :
          m # n => items[m].id # items[n].id /\ items[m].content # items[n].content
    /\ \A n \in DOMAIN items :
          LET link == items[n].revision_of
          IN  link # Nil => \E m \in DOMAIN items :
                 m # n /\ items[m].id = link.id /\ items[m] = link.sha

validate_news_observation(o, batch) ==
    /\ clocks_ordered(o)
    /\ o.available <= Cutoff /\ o.retrieved <= Cutoff
    /\ _validate_batch_relationships(batch)

\* The evidence of a batch, or Nil: one bad observation refuses them all.
normalize_news_observations(items) ==
    IF \A n \in DOMAIN items : validate_news_observation(items[n], items)
    THEN ToSet(items) ELSE Nil

create_news_revision(prior, o) == [o EXCEPT !.revision_of = [id |-> prior.id, sha |-> prior]]
-----------------------------------------------------------------------------
(* sourcedata/alpaca_news.py: one article, one page, one retrieval.         *)

\* A slip: an article is judged by its creation alone.
article_by_creation(raw, retrieved_at) ==
    IF raw.created > Cutoff THEN Nil
    ELSE [id |-> raw, article |-> raw.id, published |-> raw.created,
          available |-> retrieved_at, retrieved |-> retrieved_at,
          content |-> raw.text, raw |-> raw, revision_of |-> Nil]

\* The observation of a raw article, or Nil when its clocks pass the cutoff.
_article(raw, retrieved_at) ==
    IF raw.created > raw.updated \/ raw.updated > Cutoff \/ raw.created > Cutoff THEN Nil
    ELSE [id |-> raw, article |-> raw.id, published |-> raw.created,
          available |-> retrieved_at, retrieved |-> retrieved_at,
          content |-> raw.text, raw |-> raw, revision_of |-> Nil]

prior_of(o) ==
    IF held[o.article] # Nil /\ held[o.article].raw # o.raw THEN held[o.article] ELSE Nil

\* The job after one article of a page: the observation, or the prior and its
\* revision, is appended unless the article is out of bounds or seen before.
with_article(j, raw) ==
    LET o == _article(raw, j.retrieved_at)
    IN  IF o = Nil \/ \E n \in DOMAIN j.observations : j.observations[n].article = raw.id
        THEN [j EXCEPT !.pc = "INCOMPLETE"]
        ELSE IF prior_of(o) = Nil
        THEN [j EXCEPT !.observations = Append(@, o)]
        ELSE [j EXCEPT !.observations = Append(@, create_news_revision(prior_of(o), o)),
                       !.priors = Append(@, prior_of(o))]

refused(j) == [j EXCEPT !.pc = "INCOMPLETE", !.observations = <<>>, !.priors = <<>>]

\* The end of a retrieval: every observation is checked against the batch of
\* revised priors and observations, and an incomplete one carries nothing.
concluded(j) ==
    LET evidence == normalize_news_observations(j.priors \o j.observations)
    IN  IF evidence = Nil THEN refused(j) ELSE [j EXCEPT !.pc = "COMPLETE"]

\* One pass of the loop of retrieve_alpaca_news.
after_page(j, news, next) ==
    LET read == IF news = Nil THEN j ELSE with_article(j, news)
        page == [read EXCEPT !.pages = @ + 1]
    IN  IF next # Nil /\ next \in j.seen THEN refused(j)
        ELSE IF page.pc = "INCOMPLETE" THEN refused(page)
        ELSE IF next = Nil THEN concluded(page)
        ELSE IF page.pages = j.max_pages THEN refused(page)
        ELSE [page EXCEPT !.token = next, !.seen = @ \cup {next}]

retrieve_alpaca_news ==
    /\ job.pc \in {"NONE", "COMPLETE", "INCOMPLETE"}
    /\ runs < MaxRuns /\ now <= Cutoff
    /\ runs' = runs + 1
    /\ \E limit \in PageLimits :
          job' = [NoJob EXCEPT !.pc = "PAGING", !.retrieved_at = now, !.max_pages = limit,
                               !.known = {a \in Articles : feed[a] # Nil}]
    /\ UNCHANGED <<now, feed, edits, held>>

\* The provider's pages, newest article first, one article a page; the token
\* is the place of the last article served.
place(raw) == <<raw.created, raw.id>>
below(p, q) == p[1] < q[1] \/ (p[1] = q[1] /\ p[2] < q[2])
unread == {a \in Articles : feed[a] # Nil /\ (job.token = Nil \/ below(place(feed[a]), job.token))}
newest(set) == CHOOSE a \in set : \A b \in set \ {a} : below(place(feed[b]), place(feed[a]))

page_call ==
    /\ job.pc = "PAGING"
    /\ LET served == IF unread = {} THEN Nil ELSE feed[newest(unread)]
           next == IF Cardinality(unread) <= 1 THEN Nil ELSE place(served)
       IN  \/ job' = after_page(job, served, next)
           \/ Faulty /\ \E old \in job.seen : job' = after_page(job, served, old)
           \/ Faulty /\ job' = refused(job)
    /\ UNCHANGED <<now, feed, edits, runs, held>>

\* The host keeps what a complete retrieval showed, as the next one's priors.
adopt ==
    /\ job.pc = "COMPLETE"
    /\ held' = [a \in Articles |->
                   LET seen == {o \in ToSet(job.observations) : o.article = a}
                   IN  IF seen = {} THEN held[a] ELSE CHOOSE o \in seen : TRUE]
    /\ held' # held
    /\ UNCHANGED <<now, feed, edits, runs, job>>
-----------------------------------------------------------------------------
(* The provider's side.                                                     *)
publish(a, text) ==
    /\ feed[a] = Nil
    /\ feed' = [feed EXCEPT ![a] = [id |-> a, text |-> text, mark |-> CHOOSE m \in Marks : TRUE,
                                    created |-> now, updated |-> now]]
    /\ UNCHANGED <<now, edits, runs, held, job>>

edit(a, text, mark) ==
    /\ feed[a] # Nil /\ edits < MaxEdits
    /\ text # feed[a].text \/ mark # feed[a].mark
    /\ edits' = edits + 1
    /\ feed' = [feed EXCEPT ![a].text = text, ![a].mark = mark, ![a].updated = now]
    /\ UNCHANGED <<now, runs, held, job>>

Tick ==
    /\ now < Horizon
    /\ now' = now + 1
    /\ UNCHANGED <<feed, edits, runs, held, job>>

Next ==
    \/ retrieve_alpaca_news \/ page_call \/ adopt \/ Tick
    \/ \E a \in Articles, text \in Texts : publish(a, text)
    \/ \E a \in Articles, text \in Texts, mark \in Marks : edit(a, text, mark)

Spec == Init /\ [][Next]_vars
-----------------------------------------------------------------------------
Complete == job.pc = "COMPLETE"
Evidence == IF Complete THEN ToSet(job.observations) ELSE {}

(* No text written after the decision cutoff is evidence, although pages    *)
(* are read after the request was stamped and articles change meanwhile.    *)
NoTextAfterCutoff == \A o \in Evidence : o.raw.updated <= Cutoff

(* A complete retrieval holds every article that was out when it began: a   *)
(* page limit, a repeated token or an article gone wrong never shortens it  *)
(* silently.                                                                *)
NothingDropped == Complete => \A a \in job.known : \E o \in Evidence : o.article = a

(* A changed article the host had already accepted is a revision of exactly *)
(* that observation, and says something else than it did.                   *)
RevisionsChangeText ==
    \A o \in Evidence : \A n \in DOMAIN job.priors :
        job.priors[n].article = o.article =>
            /\ o.revision_of # Nil /\ o.revision_of.sha = job.priors[n]
            /\ o.content # job.priors[n].content

(* A revision links to an original.  The batch holds the prior of each      *)
(* article but not the prior's own prior, so a retrieval that meets an      *)
(* article revised a second time is refused as a whole.                     *)
ChainsStopAtOne == \A o \in Evidence : o.revision_of # Nil => o.revision_of.sha.revision_of = Nil
=============================================================================
