---------------------------- MODULE DailyBackfill ----------------------------
(* fetch_btc_usd_daily_backfill: the provider's pages are fetched one after   *)
(* the other from a cursor the provider moves, joined, and validated as one   *)
(* sequence of candles. The provider is not trusted: a page may be empty,     *)
(* overlap earlier pages, contradict them, hold the day in progress or a row  *)
(* without a readable timestamp, skip days, and its cursor may stall or jump. *)
(*                                                                            *)
(* Time is counted in days; Today is the day in progress, read once when the  *)
(* backfill starts. A row is its day and its OHLCV evidence, one of Evidence; *)
(* the price rules a single row may break are one such value.                 *)
EXTENDS Naturals, Sequences, SequencesExt

CONSTANTS
    Today,     \* requested_end
    Evidence,  \* OHLCV values of a row
    Malformed, \* the one that breaks a price rule or lacks a field
    PageRows,  \* the pages Kraken may answer: sequences of rows
    MaxPages   \* history_backfill_max_pages

\* A timestamp that cannot be parsed.
Untimed == 0

ASSUME BackfillAssumption ==
    /\ Today \in Nat /\ MaxPages \in Nat \ {0}
    /\ PageRows \subseteq Seq([day : 0 .. Today, evidence : Evidence])

VARIABLES
    fetching, \* "idle", "paging", "passed", "rejected" or "raised"
    since,    \* the cursor
    pages,    \* pages fetched so far
    candles,  \* accepted rows, in order of arrival
    served    \* completed rows the provider has answered

backfillVars == <<fetching, since, pages, candles, served>>

BackfillInit ==
    /\ fetching = "idle" /\ since = Today /\ pages = 0
    /\ candles = << >> /\ served = {}

StartBackfill(start) ==
    /\ fetching = "idle" /\ start < Today
    /\ fetching' = "paging" /\ since' = start
    /\ UNCHANGED <<pages, candles, served>>

\* The rows of a sequence that are wanted, in their order.
Keep(rows, wanted) ==
    LET kept[n \in 0 .. Len(rows)] ==
          IF n = 0 THEN << >>
          ELSE IF rows[n] \in wanted THEN Append(kept[n - 1], rows[n]) ELSE kept[n - 1]
    IN  kept[Len(rows)]

\* Rows of the current day are not completed yet.
Completed(page) == Keep(page, {r \in ToSet(page) : r.day = Untimed \/ r.day < Today})

\* Mutant: any row of a known day is an overlap.
SameDay(row) == row.day # Untimed /\ \E i \in DOMAIN candles : candles[i].day = row.day

\* An identical copy of the first row an earlier page held for its day.
Overlaps(row) ==
    /\ row.day # Untimed
    /\ \E i \in DOMAIN candles :
          row = candles[i] /\ \A j \in 1 .. i - 1 : candles[j].day # row.day

Accepted(page) == Keep(Completed(page), {r \in ToSet(page) : ~ Overlaps(r)})
NewDays(page) ==
    {r.day : r \in ToSet(Completed(page))} \ ({Untimed} \cup {r.day : r \in ToSet(candles)})

\* Mutant: an empty page is not counted, and the loop goes on.
PollAgain(page, next) ==
    CASE page = << >> -> "stalled"
      [] NewDays(page) = {} \/ next >= Today -> "exhausted"
      [] next <= since \/ pages + 1 >= MaxPages -> "raise"
      [] OTHER -> "more"

\* What the loop does after a page.
Verdict(page, next) ==
    CASE page = << >> \/ NewDays(page) = {} \/ next >= Today -> "exhausted"
      [] next <= since -> "raise"
      [] pages + 1 >= MaxPages -> "raise"
      [] OTHER -> "more"

\* validate_candles from the first timed candle to the requested end.
Valid(cs) ==
    /\ \A i \in DOMAIN cs :
         cs[i].day # Untimed /\ cs[i].day < Today /\ cs[i].evidence # Malformed
    /\ \A i, j \in DOMAIN cs : i < j => cs[i].day < cs[j].day
    /\ cs # << >> /\ \A d \in cs[1].day .. Today - 1 : \E i \in DOMAIN cs : cs[i].day = d

FetchPage ==
    /\ fetching = "paging"
    /\ \E page \in PageRows, next \in 0 .. Today :
         LET joined == candles \o Accepted(page)
         IN  /\ candles' = joined
             /\ served' = served \cup ToSet(Completed(page))
             /\ pages' = IF Verdict(page, next) = "stalled" THEN pages ELSE pages + 1
             /\ since' = IF Verdict(page, next) \in {"more", "stalled"} THEN next ELSE since
             /\ fetching' = CASE Verdict(page, next) \in {"more", "stalled"} -> "paging"
                              [] Verdict(page, next) = "raise" -> "raised"
                              [] Valid(joined) -> "passed"
                              [] OTHER -> "rejected"

\* An HTTP error, a timeout or an unreadable response.
ProviderFails ==
    /\ fetching = "paging"
    /\ fetching' = "raised"
    /\ UNCHANGED <<since, pages, candles, served>>

BackfillNext == FetchPage \/ ProviderFails \/ \E start \in 1 .. Today : StartBackfill(start)

\* The loop awaits each answer, for at most the client's timeout.
BackfillFairness == WF_backfillVars(FetchPage \/ ProviderFails)
BackfillSpec == BackfillInit /\ [][BackfillNext]_backfillVars /\ BackfillFairness

-----------------------------------------------------------------------------
(* Properties.                                                                *)

BackfillRows == [day : 0 .. Today, evidence : Evidence]
BackfillTypeOK ==
    /\ fetching \in {"idle", "paging", "passed", "rejected", "raised"}
    /\ since \in 0 .. Today /\ pages \in 0 .. MaxPages
    /\ candles \in Seq(BackfillRows) /\ served \subseteq BackfillRows

\* A sample that passes holds every completed day from its first one to
\* yesterday, once and in order, and no page contradicted another: what the
\* provider answered about a day is what the sample says of it. Pages overlap,
\* stall and end early, and the loop drops identical rows only.
PassedBackfillIsFaithful ==
    fetching = "passed" =>
        /\ candles # << >>
        /\ \A i \in DOMAIN candles : candles[i].day = candles[1].day + i - 1
        /\ candles[Len(candles)].day = Today - 1
        /\ served = ToSet(candles)

\* Every backfill ends, whatever cursor the provider returns: a page brings a
\* new day and moves the cursor, or the loop stops.
BackfillEnds == fetching = "paging" ~> fetching \in {"passed", "rejected", "raised"}
=============================================================================
