------------------------------ MODULE Catalogue ------------------------------
(***************************************************************************)
(* What can be bought, and whose address is whose: the market's listings   *)
(* with their checks, Circle's catalogue kept through restarts, the search *)
(* over both and our own routes (packages/api: market, circle, search) and *)
(* the labels of addresses (labels).  Endpoints, Circle, the registry and  *)
(* other facilitators are external.                                        *)
(***************************************************************************)
EXTENDS Integers, SequencesExt

CONSTANTS
    Listable,        \* calls that may be listed, by method and path
    OurRoutes,       \* those that are ours
    Terms,           \* price and payee an endpoint may ask for
    CircleLists,     \* lists Circle may answer with, one entry a page
    Submissions,     \* POST /v1/market, numbered as they come
    HostCap,         \* listings of one site
    CheckBatch,      \* listings checked when the page is read
    OfflineAfter,    \* failed checks after which a listing is not online
    GoneAfter,       \* failed checks after which it is not shown
    PageTries,       \* times a page Circle answers 429 to is asked
    OtherFacilitators,
    Awakenings,      \* sets of parts that run together
    MaxOfferChanges, MaxCatalogueFaults

ASSUME CatalogueAssumption ==
    /\ IsFiniteSet(Listable) /\ OurRoutes \subseteq Listable /\ Submissions \subseteq Nat /\ IsFiniteSet(Submissions)
    /\ IsFiniteSet(Terms) /\ Terms # {} /\ IsFiniteSet(OtherFacilitators)
    /\ \A l \in CircleLists : l \in Seq(Listable \X Terms)
    /\ HostCap \in Nat \ {0} /\ CheckBatch \in Nat \ {0}
    /\ OfflineAfter \in Nat \ {0} /\ GoneAfter \in Nat \ {0} /\ PageTries \in Nat \ {0}
    /\ MaxOfferChanges \in Nat /\ MaxCatalogueFaults \in Nat

NoTerms == "no terms"
NoCall == "no call"
NoSite == "no site"

VARIABLES
    about,           \* parts that run: "market", "circle", "search", "labels"
    offers,          \* what each endpoint asks for now
    listings,        \* market_listings
    byAge,           \* the listings, the one checked longest ago first
    overdue,         \* how many of them were checked more than an hour ago
    submission,      \* POST /v1/market
    check,           \* refresh
    found,           \* listedItems, the search and its last answer
    circle,          \* circleCatalogue, in memory
    circleStore,     \* its copy in api_cache
    circleList,      \* Circle's list now
    labels,          \* address_labels, by source
    labeler,
    said,            \* history: terms endpoints asked for, entries Circle listed
    catFaults, offerChanges

catVars == <<about, offers, listings, byAge, overdue, submission, check, found, circle,
             circleStore, circleList, labels, labeler, said, catFaults, offerChanges>>
marketVars == <<listings, byAge, overdue, submission, check>>
circleVars == <<circle, circleStore>>
worldVars == <<offers, circleList, said, offerChanges>>

Listing == [terms : Terms \cup {NoTerms}, fails : 0..GoneAfter, ok : BOOLEAN]
NoListing == [terms |-> NoTerms, fails |-> 0, ok |-> FALSE]
IsListed(k) == listings[k].terms # NoTerms
Entries == Listable \X Terms
NoSubmission == [pc |-> "none", call |-> NoCall, read |-> NoTerms]
NoCheck == [pc |-> "none", queue |-> <<>>, read |-> NoTerms]
NoFound == [fresh |-> FALSE, rows |-> {}, circle |-> {}, shown |-> {}]
NoCircle == [pc |-> "new", items |-> {}, known |-> FALSE, page |-> 0, tries |-> 0, got |-> {}]
LabelSources == <<"ours", "circle", "market", "facilitator", "erc8004">>
NoLabeler == [pc |-> "none", at |-> 1, slow |-> TRUE, read |-> {}]

CatTypeOK ==
    /\ about \in Awakenings
    /\ offers \in [Listable -> Terms \cup {NoTerms}]
    /\ listings \in [Listable -> Listing]
    /\ ToSet(byAge) = {k \in Listable : IsListed(k)} /\ Len(byAge) = Cardinality(ToSet(byAge))
    /\ overdue \in 0..Len(byAge)
    /\ submission \in [Submissions -> [pc : {"none", "probing", "counting", "listing", "listed", "refused"},
                                       call : Listable \cup {NoCall}, read : Terms \cup {NoTerms}]]
    /\ check.pc \in {"none", "probe", "write"}
    /\ found.fresh \in BOOLEAN /\ found.circle \subseteq Entries
    /\ circle.pc \in {"new", "restoring", "idle", "page"} /\ circle.items \subseteq Entries
    /\ circleStore \subseteq Entries /\ circleList \in CircleLists
    /\ labeler.pc \in {"none", "read", "replace"} /\ labeler.at \in 1..5
    /\ catFaults \in 0..MaxCatalogueFaults /\ offerChanges \in 0..MaxOfferChanges

CatInit ==
    /\ about \in Awakenings
    /\ offers = [k \in Listable |-> CHOOSE t \in Terms : TRUE]
    /\ listings = [k \in Listable |-> NoListing] /\ byAge = <<>> /\ overdue = 0
    /\ submission = [n \in Submissions |-> NoSubmission] /\ check = NoCheck
    /\ found = NoFound
    /\ circleList \in CircleLists /\ circleStore = {}
    /\ circle = IF "circle" \in about THEN NoCircle
                ELSE [NoCircle EXCEPT !.pc = "idle", !.items = ToSet(circleList), !.known = TRUE]
    /\ labels = [s \in ToSet(LabelSources) |-> {}] /\ labeler = NoLabeler
    /\ said = [offers |-> {<<k, offers[k]>> : k \in Listable}, circle |-> ToSet(circleList),
               held |-> circle.items # {}, labelled |-> {}]
    /\ catFaults = 0 /\ offerChanges = 0

CatFault == catFaults < MaxCatalogueFaults /\ catFaults' = catFaults + 1
NoCatFault == UNCHANGED catFaults

-----------------------------------------------------------------------------
(* The world *)

OfferChanges(k, t) ==
    /\ "market" \in about /\ offerChanges < MaxOfferChanges /\ t # offers[k]
    /\ offers' = [offers EXCEPT ![k] = t] /\ offerChanges' = offerChanges + 1
    /\ said' = IF t = NoTerms THEN said ELSE [said EXCEPT !.offers = @ \cup {<<k, t>>}]
    /\ UNCHANGED <<about, marketVars, found, circleVars, circleList, labels, labeler, catFaults>>

CircleChanges(l) ==
    /\ "circle" \in about /\ offerChanges < MaxOfferChanges /\ l # circleList
    /\ circleList' = l /\ offerChanges' = offerChanges + 1
    /\ said' = [said EXCEPT !.circle = @ \cup ToSet(l)]
    /\ UNCHANGED <<about, offers, marketVars, found, circleVars, labels, labeler, catFaults>>

AnHourPasses ==
    /\ overdue < Len(byAge) /\ overdue' = Len(byAge)
    /\ UNCHANGED <<about, worldVars, listings, byAge, submission, check, found, circleVars, labels, labeler, catFaults>>

-----------------------------------------------------------------------------
(* The market: POST /v1/market *)

\* A route that answers 402 with an x402 challenge for Arc can be listed.
Probed(k, read) ==
    \/ read = offers[k] /\ NoCatFault
    \/ read = NoTerms /\ CatFault

\* Checked just now: the last by age.
Moved(k) ==
    \/ /\ ~IsListed(k)
       /\ byAge' = Append(byAge, k) /\ UNCHANGED overdue
    \/ \E i \in DOMAIN byAge :
         /\ byAge[i] = k
         /\ byAge' = Append(RemoveAt(byAge, i), k)
         /\ overdue' = IF i <= overdue THEN overdue - 1 ELSE overdue

Upserted(k, terms) ==
    /\ listings' = [listings EXCEPT ![k] = [terms |-> terms, fails |-> 0, ok |-> TRUE]]
    /\ Moved(k)

Submission(n, pc) == submission' = [submission EXCEPT ![n].pc = pc]

SubmitProbes(n, k) ==
    /\ "market" \in about /\ submission[n].pc = "none" /\ \A o \in Submissions : o < n => submission[o].pc # "none"
    /\ \E read \in Terms \cup {NoTerms} :
         /\ Probed(k, read)
         /\ submission' = [submission EXCEPT ![n] = [pc |-> IF read = NoTerms THEN "refused" ELSE "counting",
                                                     call |-> k, read |-> read]]
    /\ UNCHANGED <<about, worldVars, listings, byAge, overdue, check, found, circleVars, labels, labeler>>

SubmitCounts(n) ==
    /\ submission[n].pc = "counting"
    /\ Submission(n, IF Len(byAge) >= HostCap THEN "refused" ELSE "listing")
    /\ UNCHANGED <<about, worldVars, listings, byAge, overdue, check, found, circleVars, labels, labeler, catFaults>>

SubmitLists(n) ==
    /\ submission[n].pc = "listing"
    /\ Upserted(submission[n].call, submission[n].read) /\ Submission(n, "listed")
    /\ UNCHANGED <<about, worldVars, check, found, circleVars, labels, labeler, catFaults>>

-----------------------------------------------------------------------------
(* The market: the checks *)

\* Reading the page checks a few of those not checked for an hour, the oldest
\* first, unless a check is under way.
PageIsRead ==
    /\ "market" \in about /\ check.pc = "none" /\ overdue > 0
    /\ check' = [NoCheck EXCEPT !.pc = "probe",
                   !.queue = SubSeq(byAge, 1, IF overdue < CheckBatch THEN overdue ELSE CheckBatch)]
    /\ UNCHANGED <<about, worldVars, listings, byAge, overdue, submission, found, circleVars, labels, labeler, catFaults>>

CheckProbes ==
    /\ check.pc = "probe"
    /\ \E read \in Terms \cup {NoTerms} :
         Probed(Head(check.queue), read) /\ check' = [check EXCEPT !.pc = "write", !.read = read]
    /\ UNCHANGED <<about, worldVars, listings, byAge, overdue, submission, found, circleVars, labels, labeler>>

CheckGoesOn == check' = IF Len(check.queue) > 1
                        THEN [NoCheck EXCEPT !.pc = "probe", !.queue = Tail(check.queue)] ELSE NoCheck

\* What the check found is written over the row, or one more failure is; the
\* count saturates here at what hides the listing.
CheckWrites ==
    LET k == Head(check.queue) IN
    /\ check.pc = "write"
    /\ \/ check.read # NoTerms /\ Upserted(k, check.read) /\ CheckGoesOn /\ NoCatFault
       \/ /\ check.read = NoTerms /\ CheckGoesOn /\ Moved(k) /\ NoCatFault
          /\ listings' = [listings EXCEPT ![k].fails = IF @ < GoneAfter THEN @ + 1 ELSE @,
                                          ![k].ok = listings[k].fails + 1 < OfflineAfter]
       \/ CatFault /\ check' = NoCheck /\ UNCHANGED <<listings, byAge, overdue>>
    /\ UNCHANGED <<about, worldVars, submission, found, circleVars, labels, labeler>>

-----------------------------------------------------------------------------
(* Circle's catalogue *)

\* A start restores the saved copy, when it can be read, and then reads.
CircleRestores ==
    /\ "circle" \in about /\ circle.pc = "new"
    /\ \/ /\ circleStore # {} /\ NoCatFault
          /\ circle' = [circle EXCEPT !.pc = "idle", !.items = circleStore, !.known = TRUE]
          /\ said' = [said EXCEPT !.held = TRUE]
       \/ circleStore = {} /\ circle' = [circle EXCEPT !.pc = "idle"] /\ UNCHANGED said /\ NoCatFault
       \/ CatFault /\ circle' = [circle EXCEPT !.pc = "idle"] /\ UNCHANGED said
    /\ UNCHANGED <<about, offers, circleList, offerChanges, marketVars, found, circleStore, labels, labeler>>

CircleReads ==
    /\ "circle" \in about /\ circle.pc = "idle"
    /\ circle' = [circle EXCEPT !.pc = "page", !.page = 1, !.tries = 0, !.got = {}]
    /\ UNCHANGED <<about, worldVars, marketVars, found, circleStore, labels, labeler, catFaults>>

\* Slip: what is read is shown page by page.
CircleKeepsAll(got, items) == got

\* An empty list after one that was not is taken for a hiccup.
CircleKeeps(got, items) == IF got = {} THEN items ELSE got

\* One page: an entry, the end of the list, 429 and another try, or a failure
\* that keeps the last copy.  A copy with entries is saved; saving may fail.
CircleReadsPage ==
    LET last == circle.page >= Len(circleList)
        got == IF circle.page > Len(circleList) THEN circle.got ELSE circle.got \cup {circleList[circle.page]}
        kept == CircleKeeps(got, circle.items)
    IN /\ circle.pc = "page"
       /\ \/ ~last /\ circle' = [circle EXCEPT !.page = @ + 1, !.tries = 0, !.got = got]
             /\ UNCHANGED <<circleStore, said>> /\ NoCatFault
          \/ /\ last /\ got = {} /\ circle.items # {}
             /\ circle' = [circle EXCEPT !.pc = "idle", !.items = kept, !.page = 0, !.got = {}]
             /\ UNCHANGED <<circleStore, said>> /\ NoCatFault
          \/ /\ last /\ (got # {} \/ circle.items = {})
             /\ circle' = [circle EXCEPT !.pc = "idle", !.items = kept, !.known = TRUE, !.page = 0, !.got = {}]
             /\ said' = [said EXCEPT !.held = @ \/ got # {}]
             /\ \/ circleStore' = (IF got = {} THEN circleStore ELSE got) /\ NoCatFault
                \/ got # {} /\ UNCHANGED circleStore /\ CatFault
          \/ circle.tries < PageTries /\ CatFault /\ circle' = [circle EXCEPT !.tries = @ + 1]
             /\ UNCHANGED <<circleStore, said>>
          \/ CatFault /\ circle' = [circle EXCEPT !.pc = "idle", !.page = 0, !.got = {}]
             /\ UNCHANGED <<circleStore, said>>
    /\ UNCHANGED <<about, offers, circleList, offerChanges, marketVars, found, labels, labeler>>

-----------------------------------------------------------------------------
(* The search *)

Shown(k) == IsListed(k) /\ listings[k].fails < GoneAfter

\* Slip: what Circle lists is not left out of the market's.
KeptOfMarketAll(rows, ours, circles) == {r \in rows : r.call \notin ours}

\* A listing of ours adds nothing to the route, nor one of Circle's to its entry.
KeptOfMarket(rows, ours, circles) == {r \in rows : r.call \notin ours \cup circles}

\* listedItems: a copy of the market's rows is kept for half a minute.
ListedItems ==
    IF found.fresh THEN found.rows
    ELSE {[call |-> k, terms |-> listings[k].terms, online |-> listings[k].ok] : k \in {l \in Listable : Shown(l)}}

\* A search over the market's rows and Circle's entries; what is not online is
\* left out.  Matching and order do not matter here.
CatSearched ==
    LET listed == {e \in circle.items : e[1] \notin OurRoutes}
        rows == ListedItems
        market == KeptOfMarket(rows, OurRoutes, {e[1] : e \in listed})
    IN /\ "search" \in about
       /\ found' = [fresh |-> TRUE, rows |-> rows, circle |-> listed, shown |-> {r \in market : r.online}]
       /\ UNCHANGED <<about, worldVars, marketVars, circleVars, labels, labeler, catFaults>>

CopyAges ==
    /\ found.fresh /\ found' = [found EXCEPT !.fresh = FALSE]
    /\ UNCHANGED <<about, worldVars, marketVars, circleVars, labels, labeler, catFaults>>

-----------------------------------------------------------------------------
(* The labels *)

Source == LabelSources[labeler.at]
Labels == {[source |-> s, of |-> k] : s \in ToSet(LabelSources), k \in Listable \cup OtherFacilitators}
LabelsOf(S) == {[source |-> Source, of |-> k] : k \in S}

LabelerRuns ==
    /\ "labels" \in about /\ labeler.pc = "none"
    /\ labeler' = [labeler EXCEPT !.pc = "read", !.at = 1]
    /\ UNCHANGED <<about, worldVars, marketVars, found, circleVars, labels, catFaults>>

\* The slow sources come every sixth run.
NextSource == IF labeler.at = 5 \/ (labeler.at = 3 /\ ~labeler.slow)
              THEN [labeler EXCEPT !.pc = "none", !.at = 1, !.slow = ~@, !.read = {}]
              ELSE [labeler EXCEPT !.pc = "read", !.at = @ + 1, !.read = {}]

\* Slip: a registry that no endpoint reads looks like one without agents.
ReadableEvenEmpty(source, read) == TRUE

\* Circle's labels wait for its first copy; a registry without agents is one
\* that refused us.
Readable(source, read) == source \notin {"circle", "erc8004"} \/ read # {}

\* A facilitator that does not answer has no signers.
FacilitatorsSay == SUBSET OtherFacilitators

\* The registry is read from the first endpoint that reads it; one that refuses
\* us looks like a registry without agents.
RegistrySays == {Listable \ OurRoutes, {}}

\* What a source says now.
SourceSays(source) ==
    CASE source = "ours" -> {OurRoutes, {}}
      [] source = "circle" -> {{e[1] : e \in circle.items}}
      [] source = "market" -> {{k \in Listable : Shown(k)}}
      [] source = "facilitator" -> FacilitatorsSay
      [] OTHER -> RegistrySays

LabelerReads ==
    /\ labeler.pc = "read"
    /\ \/ /\ \E read \in SourceSays(Source) :
              labeler' = IF Readable(Source, read)
                         THEN [labeler EXCEPT !.pc = "replace", !.read = LabelsOf(read)] ELSE NextSource
          /\ NoCatFault
       \/ CatFault /\ labeler' = NextSource
    /\ UNCHANGED <<about, worldVars, marketVars, found, circleVars, labels>>

\* One transaction: all of the source's labels, or none of the change.
LabelerReplaces ==
    /\ labeler.pc = "replace" /\ labeler' = NextSource
    /\ \/ /\ labels' = [labels EXCEPT ![Source] = labeler.read] /\ NoCatFault
          /\ said' = IF labeler.read = {} THEN said ELSE [said EXCEPT !.labelled = @ \cup {Source}]
       \/ UNCHANGED <<labels, said>> /\ CatFault
    /\ UNCHANGED <<about, offers, circleList, offerChanges, marketVars, found, circleVars>>

-----------------------------------------------------------------------------
\* The API stops and starts: what is in memory is gone.
ApiRestarts ==
    /\ CatFault
    /\ submission' = [n \in Submissions |-> NoSubmission] /\ check' = NoCheck /\ found' = NoFound
    /\ circle' = (IF "circle" \in about THEN NoCircle ELSE circle) /\ labeler' = NoLabeler
    /\ said' = [said EXCEPT !.held = circle'.items # {}]
    /\ UNCHANGED <<about, offers, circleList, offerChanges, listings, byAge, overdue, circleStore, labels>>

CatNext ==
    \/ \E k \in Listable :
         \/ \E t \in Terms \cup {NoTerms} : OfferChanges(k, t)
         \/ \E n \in Submissions : SubmitProbes(n, k)
    \/ \E l \in CircleLists : CircleChanges(l)
    \/ AnHourPasses
    \/ \E n \in Submissions : SubmitCounts(n) \/ SubmitLists(n)
    \/ PageIsRead \/ CheckProbes \/ CheckWrites
    \/ CircleRestores \/ CircleReads \/ CircleReadsPage
    \/ CatSearched \/ CopyAges
    \/ LabelerRuns \/ LabelerReads \/ LabelerReplaces
    \/ ApiRestarts

CatSpec == CatInit /\ [][CatNext]_catVars

-----------------------------------------------------------------------------
(* Properties *)

\* What a search shows was said: the terms of a listing by the endpoint itself
\* when it was called, an entry of Circle's by Circle; no call is shown twice,
\* and none of ours as somebody else's.  And what was read once is not lost to
\* a bad moment of whoever said it: Circle's list, the labels of Circle and of
\* the registry.  A site has no more listings than it may, but for those
\* submitted together.
CatalogueHonest ==
    /\ \A r \in found.shown : <<r.call, r.terms>> \in said.offers /\ r.call \notin OurRoutes
    /\ found.circle \subseteq said.circle
    /\ \A e \in found.circle, r \in found.shown : e[1] # r.call
    /\ said.held => circle.items # {}
    /\ circle.items \subseteq said.circle /\ circleStore \subseteq said.circle
    /\ \A s \in said.labelled \cap {"circle", "erc8004"} : labels[s] # {}
    /\ Len(byAge) <= HostCap + Cardinality(Submissions) - 1
=============================================================================
