------------------------------- MODULE BarStore -------------------------------
(***************************************************************************)
(* The bar store and the commands that fill it (gadarah-data, and the      *)
(* data commands of gadarah-cli): the table bars of one symbol in one      *)
(* SQLite file, a download of tick data (fetch), and one other command     *)
(* running beside it: a CSV import with derived timeframes, an             *)
(* aggregation, or the cleaning pipeline (gap fill, volume smoothing,      *)
(* audit).  Two processes may hold the file open; a transaction is atomic, *)
(* what a command read before its transaction is not.  Either process may  *)
(* be killed between two steps.                                            *)
(*                                                                         *)
(* Time is in minutes.  A row keeps where its prices come from: prices is  *)
(* the set of market minutes its open, high, low and close are taken over, *)
(* close the minute whose price it closes on.  Two fields are history:     *)
(* made says that no tick of the row's own time is in it, odd that it goes *)
(* back to a file that does not fit its timeframe, or to bars aggregated   *)
(* into a finer one.                                                       *)
(***************************************************************************)
EXTENDS Integers, Sequences, FiniteSets, SequencesExt

CONSTANTS
    Timeframes,     \* the timeframes in use
    Seconds,        \* Timeframe::seconds(), here in minutes
    Market,         \* the minutes the feed has ticks for, and their volume
    HourLen,        \* minutes in an hour, the unit of a download
    DayLen,         \* minutes in a day
    LastDay,        \* bound: days are 0..LastDay
    Weekday,        \* the weekday of each day
    FetchLists,     \* --timeframes of the download
    Directories,    \* directories of CSV files: sequences of [tf, rows, bad]
    Derivations,    \* --derive-from and --derive-to: [from, to]
    Aggregations,   \* arguments of the aggregate command: <<from, to>>
    CleaningLists,  \* the timeframes of a cleaning pipeline
    VolumeWindow,         \* volume_window
    MaxCluster,     \* volume_max_cluster
    MinHistory,     \* --min-history-days
    MaxCommands     \* bound: commands started beside the download, and downloads

Minutes == 0..((LastDay + 1) * DayLen - 1)
Unknown == "?"

NoPlan == [from |-> Unknown, to |-> <<>>]

\* The timeframes divide each other.
ASSUME TimeAssumption ==
    /\ "M1" \in Timeframes /\ Unknown \notin Timeframes
    /\ Seconds \in [Timeframes -> Nat \ {0}] /\ Seconds["M1"] = 1
    /\ \A u, v \in Timeframes : Seconds[u] <= Seconds[v] => Seconds[v] % Seconds[u] = 0
    /\ DayLen \in Nat \ {0} /\ HourLen \in Nat \ {0} /\ LastDay \in Nat
    /\ DOMAIN Market \subseteq Minutes

Row(prices, close, vol, made, odd) ==
    [prices |-> prices, close |-> close, vol |-> vol, made |-> made, odd |-> odd]

\* align_timestamp
Align(t, tf) == t - (t % Seconds[tf])

\* The minutes of a row's prices.
Held(row) == row.prices \union {row.close}

\* What a file holds is taken as it stands: its rows may lie off the grid of the
\* timeframe that its name gives, or span more than it.
Exports == UNION {{dir[i] : i \in DOMAIN dir} : dir \in Directories}

ASSUME ExportsAssumption ==
    /\ Directories \subseteq Seq(Exports)
    /\ \A file \in Exports :
        /\ file.bad \in BOOLEAN
        /\ file.tf = Unknown \/
            /\ file.tf \in Timeframes
            /\ DOMAIN file.rows \subseteq Minutes
            /\ \A t \in DOMAIN file.rows :
                /\ DOMAIN file.rows[t] = {"prices", "close", "vol", "made", "odd"}
                /\ Held(file.rows[t]) \subseteq Nat

\* The aggregate command takes any two timeframes.
ASSUME CommandsAssumption ==
    /\ FetchLists \subseteq Seq(Timeframes) /\ CleaningLists \subseteq Seq(Timeframes)
    /\ Derivations \subseteq {NoPlan} \cup [from : Timeframes, to : Seq(Timeframes)]
    /\ Aggregations \subseteq Timeframes \X Timeframes

VARIABLES
    store,      \* the table: timeframe -> timestamp -> row
    fetch,      \* the download: its locals in stream_and_insert
    job,        \* the other command: its locals
    started     \* commands and downloads started so far

storeVars == <<store, fetch, job, started>>

-----------------------------------------------------------------------------
(* Operators on one series, a function from timestamps to rows.            *)

\* INSERT ... ON CONFLICT DO UPDATE: the new row wins.
Upsert(series, new) ==
    [t \in DOMAIN series \union DOMAIN new |->
        IF t \in DOMAIN new THEN new[t] ELSE series[t]]

\* INSERT OR IGNORE: the row in the table wins.
InsertOrIgnore(series, new) == Upsert(new, series)

Bucket(series, b, tf) == {t \in DOMAIN series : Align(t, tf) = b}

\* aggregate_bars: rows of a sorted series that share a bucket are merged.
Merge(series, times, finer) ==
    Row(UNION {series[t].prices : t \in times},
        series[Max(times)].close,
        MapThenSumSet(LAMBDA t : series[t].vol, times),
        \A t \in times : series[t].made,
        finer \/ \E t \in times : series[t].odd)

Aggregate(series, from, tf) ==
    [b \in {Align(t, tf) : t \in DOMAIN series} |->
        Merge(series, Bucket(series, b, tf), Seconds[tf] < Seconds[from])]

\* bars.windows(2)
Neighbours(times) ==
    {w \in times \X times : w[1] < w[2] /\ \A t \in times : t <= w[1] \/ t >= w[2]}

\* is_expected_weekend_gap: only the two weekdays are looked at.
WeekendGap(a, b) ==
    /\ Weekday[a \div DayLen] = "Fri"
    /\ Weekday[b \div DayLen] \in {"Sun", "Mon"}

\* detect_gaps
Gaps(times, tf) ==
    {w \in Neighbours(times) :
        /\ w[2] - w[1] > Seconds[tf]
        /\ ~WeekendGap(w[1], w[2])
        /\ (w[2] - w[1]) \div Seconds[tf] - 1 > 0}

\* Mutant: the last missing slot is left out.
SlotsShort(gap, tf) ==
    {t \in Minutes : gap[1] < t /\ t + Seconds[tf] < gap[2] /\ (t - gap[1]) % Seconds[tf] = 0}

\* fill_gaps: the missing slots of a gap, each a flat row at the close before it.
Slots(gap, tf) ==
    {t \in Minutes : gap[1] < t /\ t < gap[2] /\ (t - gap[1]) % Seconds[tf] = 0}

Flat(row) == Row({row.close}, row.close, 0, TRUE, row.odd)

GapBefore(times, t, tf) == CHOOSE w \in Gaps(times, tf) : t \in Slots(w, tf)

\* Mutant: the gap is filled at the price after it.
SyntheticNext(series, tf) ==
    LET times == DOMAIN series
    IN  [t \in UNION {Slots(w, tf) : w \in Gaps(times, tf)} |->
            Flat(series[GapBefore(times, t, tf)[2]])]

Synthetic(series, tf) ==
    LET times == DOMAIN series
    IN  [t \in UNION {Slots(w, tf) : w \in Gaps(times, tf)} |->
            Flat(series[GapBefore(times, t, tf)[1]])]

\* process_volumes: the run of rows without volume around row i, and the
\* median of the volumes around it.
Sorted(times) ==
    SelectSeq([i \in 1..((LastDay + 1) * DayLen) |-> i - 1], LAMBDA t : t \in times)

Cluster(volumes, i) ==
    {j \in 1..Len(volumes) :
        \A k \in 1..Len(volumes) : (i <= k /\ k <= j) \/ (j <= k /\ k <= i) => volumes[k] = 0}

Surrounding(volumes, i) ==
    SortSeq(SelectSeq(SubSeq(volumes, Max({i - VolumeWindow, 1}), Min({i + VolumeWindow, Len(volumes)})),
                      LAMBDA v : v > 0), <)

Median(volumes) == volumes[Len(volumes) \div 2 + 1]

Repaired(volumes) ==
    {i \in 1..Len(volumes) :
        /\ volumes[i] = 0
        /\ Cardinality(Cluster(volumes, i)) <= MaxCluster
        /\ Surrounding(volumes, i) # <<>>}

Smoothed(series) ==
    LET times == Sorted(DOMAIN series)
        volumes == [i \in 1..Len(times) |-> series[times[i]].vol]
        repaired == Repaired(volumes)
    IN  [t \in {times[i] : i \in repaired} |->
            Median(Surrounding(volumes, CHOOSE i \in repaired : times[i] = t))]

\* UPDATE bars SET volume = ... WHERE timestamp = ...
SetVolumes(series, volumes) ==
    [t \in DOMAIN series |->
        IF t \in DOMAIN volumes THEN [series[t] EXCEPT !.vol = volumes[t]] ELSE series[t]]

\* audit_bars
Misaligned(times, tf) == {t \in times : t % Seconds[tf] # 0}

UnexpectedGaps(times, tf) ==
    {w \in Neighbours(times) : w[2] - w[1] > Seconds[tf] /\ ~WeekendGap(w[1], w[2])}

AuditPasses(times, tf) == Misaligned(times, tf) = {} /\ UnexpectedGaps(times, tf) = {}

\* build_dataset_readiness_report for one series.
HistoryDays(times) ==
    IF times = {} THEN 0 ELSE (Max(times) - Min(times)) \div DayLen + 1

Ready(times, tf) ==
    times # {} /\ AuditPasses(times, tf) /\ HistoryDays(times) >= MinHistory

-----------------------------------------------------------------------------
(* The download (stream_and_insert).                                       *)

NoFetch == [on |-> FALSE, day |-> 0, to |-> 0, tfs |-> <<>>, left |-> <<>>, minutes |-> {}]

NoJob == [step |-> "idle", queue |-> <<>>, plan |-> NoPlan, source |-> Unknown, snap |-> <<>>,
          seen |-> {}, passed |-> FALSE]

StoreInit ==
    /\ store = [tf \in Timeframes |-> <<>>]
    /\ fetch = NoFetch
    /\ job = NoJob
    /\ started = 0

Starting == started < MaxCommands /\ started' = started + 1

StartFetch ==
    /\ ~fetch.on
    /\ Starting
    /\ \E from \in 0..LastDay, tfs \in FetchLists :
        \E to \in from..LastDay :
            fetch' = [NoFetch EXCEPT !.on = TRUE, !.day = from, !.to = to, !.tfs = tfs]
    /\ UNCHANGED <<store, job>>

\* The hours of a day that the feed has ticks for.
Hours(day) ==
    {m \div HourLen : m \in {n \in DOMAIN Market : n \div DayLen = day}}

\* ticks_to_m1
MinuteRows(minutes) == [m \in minutes |-> Row({m}, m, Market[m], FALSE, FALSE)]

AfterDay(f) ==
    IF f.day = f.to THEN NoFetch ELSE [f EXCEPT !.day = @ + 1, !.left = <<>>, !.minutes = {}]

\* The 24 requests of a day.  An hour answered with an error status is skipped
\* like one without data.
FetchDay ==
    /\ fetch.on /\ fetch.left = <<>>
    /\ \E got \in SUBSET Hours(fetch.day) :
        fetch' = IF got = {} THEN AfterDay(fetch)
                 ELSE [fetch EXCEPT
                         !.minutes = {m \in DOMAIN Market : m \div HourLen \in got},
                         !.left = IF Contains(fetch.tfs, "M1") THEN fetch.tfs
                                  ELSE Append(fetch.tfs, "M1")]
    /\ UNCHANGED <<store, job, started>>

\* One insert_bars of the day; the minutes go last unless they were asked for.
FetchWrite ==
    /\ fetch.on /\ fetch.left # <<>>
    /\ LET tf == Head(fetch.left)
           day == MinuteRows(fetch.minutes)
       IN  store' = [store EXCEPT ![tf] =
                Upsert(@, IF tf = "M1" THEN day ELSE Aggregate(day, "M1", tf))]
    /\ fetch' = IF Len(fetch.left) = 1 THEN AfterDay(fetch)
                ELSE [fetch EXCEPT !.left = Tail(@)]
    /\ UNCHANGED <<job, started>>

\* A transport error, a payload that does not decompress, a failed insert or a
\* kill: the day in hand is lost, the days before it stay.
FetchStops ==
    /\ fetch.on
    /\ fetch' = NoFetch
    /\ UNCHANGED <<store, job, started>>

-----------------------------------------------------------------------------
(* The other command.                                                      *)

Idle == job.step \in {"idle", "done"}

To(step) == [job EXCEPT !.step = step]

Begin(j) ==
    /\ Idle
    /\ Starting
    /\ job' = j
    /\ UNCHANGED <<store, fetch>>

\* discover_dataset_files: one file name with an unknown timeframe ends the
\* command before any file is read.
StartImport ==
    \E dir \in Directories, plan \in Derivations :
        /\ \A i \in 1..Len(dir) : dir[i].tf # Unknown
        /\ dir # <<>>
        /\ Begin([NoJob EXCEPT !.step = "import", !.queue = dir, !.plan = plan])

\* The rows of a file, off the grid or not.
Taken(file) ==
    [t \in DOMAIN file.rows |->
        [file.rows[t] EXCEPT !.odd = \/ t % Seconds[file.tf] # 0
                                     \/ \E m \in Held(file.rows[t]) : m >= t + Seconds[file.tf]]]

\* import_csv: every line is parsed before the first is inserted.
ImportFile ==
    /\ job.step = "import"
    /\ LET file == Head(job.queue)
       IN  IF file.bad
           THEN job' = To("idle") /\ UNCHANGED store
           ELSE /\ store' = [store EXCEPT ![file.tf] = Upsert(@, Taken(file))]
                /\ job' = [job EXCEPT
                        !.queue = Tail(@),
                        !.step = IF Len(job.queue) > 1 THEN "import"
                                 ELSE IF job.plan = NoPlan THEN "idle" ELSE "derive"]
    /\ UNCHANGED <<fetch, started>>

\* derive_timeframes_for_symbol, its reading half.
DeriveRead ==
    /\ job.step = "derive"
    /\ LET series == store[job.plan.from]
       IN  job' = IF series = <<>> \/ job.plan.to = <<>> THEN To("report")
                  ELSE [job EXCEPT !.snap = series, !.source = job.plan.from, !.queue = job.plan.to,
                              !.step = "write"]
    /\ UNCHANGED <<store, fetch, started>>

\* One insert_bars of what was read; a target that is not coarser is skipped.
Coarser(tf) == job.plan = NoPlan \/ Seconds[tf] > Seconds[job.plan.from]

WriteDerived ==
    /\ job.step = "write"
    /\ LET tf == Head(job.queue)
       IN  store' = IF Coarser(tf)
                    THEN [store EXCEPT ![tf] = Upsert(@, Aggregate(job.snap, job.source, tf))]
                    ELSE store
    /\ job' = [job EXCEPT !.queue = Tail(@),
                          !.step = IF Len(job.queue) > 1 THEN "write"
                                   ELSE IF job.plan = NoPlan THEN "idle" ELSE "report"]
    /\ UNCHANGED <<fetch, started>>

\* aggregate: the two timeframes are taken as given.
StartAggregate ==
    \E pair \in Aggregations :
        /\ store[pair[1]] # <<>>
        /\ Begin([NoJob EXCEPT !.step = "write", !.queue = <<pair[2]>>,
                               !.source = pair[1], !.snap = store[pair[1]]])

\* run_pipeline on the configured timeframes that have a row, in their order.
StartPipeline ==
    \E wanted \in CleaningLists : \E todo \in SeqOf(Timeframes, Len(wanted)) :
        /\ todo = SelectSeq(wanted, LAMBDA tf : store[tf] # <<>>)
        /\ todo # <<>>
        /\ Begin([NoJob EXCEPT !.step = "fill", !.queue = todo])

Current == store[Head(job.queue)]

\* fill_gaps reads the series ...
FillRead ==
    /\ job.step = "fill"
    /\ job' = [job EXCEPT
            !.snap = Current,
            !.seen = DOMAIN Current \union DOMAIN Synthetic(Current, Head(job.queue)),
            !.step = IF Gaps(DOMAIN Current, Head(job.queue)) = {} THEN "smooth" ELSE "filling"]
    /\ UNCHANGED <<store, fetch, started>>

\* Mutant: the filler overwrites.
FillOver(series, snap, tf) == Upsert(series, Synthetic(snap, tf))

Fill(series, snap, tf) == InsertOrIgnore(series, Synthetic(snap, tf))

\* ... and inserts the missing slots in a transaction of its own.
FillWrite ==
    /\ job.step = "filling"
    /\ store' = [store EXCEPT ![Head(job.queue)] = Fill(@, job.snap, Head(job.queue))]
    /\ job' = To("smooth")
    /\ UNCHANGED <<fetch, started>>

SmoothRead ==
    /\ job.step = "smooth"
    /\ job' = [job EXCEPT !.snap = Current,
                          !.step = IF Smoothed(Current) = <<>> THEN "audit" ELSE "smoothing"]
    /\ UNCHANGED <<store, fetch, started>>

SmoothWrite ==
    /\ job.step = "smoothing"
    /\ store' = [store EXCEPT ![Head(job.queue)] = SetVolumes(@, Smoothed(job.snap))]
    /\ job' = To("audit")
    /\ UNCHANGED <<fetch, started>>

AuditSeries ==
    /\ job.step = "audit"
    /\ job' = [job EXCEPT !.snap = Current,
                          !.passed = AuditPasses(DOMAIN Current, Head(job.queue)),
                          !.step = "audited"]
    /\ UNCHANGED <<store, fetch, started>>

NextSeries ==
    /\ job.step = "audited"
    /\ job' = [job EXCEPT !.queue = Tail(@), !.snap = <<>>, !.seen = {},
                          !.step = IF Len(job.queue) > 1 THEN "fill" ELSE "idle"]
    /\ UNCHANGED <<store, fetch, started>>

\* The readiness report that ends a build, for one required timeframe.
Report ==
    /\ job.step = "report"
    /\ \E tf \in Timeframes :
        job' = [job EXCEPT !.queue = <<tf>>, !.snap = store[tf],
                           !.passed = Ready(DOMAIN store[tf], tf), !.step = "done"]
    /\ UNCHANGED <<store, fetch, started>>

\* An SQLite error, rolled back, or a kill.
JobStops ==
    /\ ~Idle
    /\ job' = NoJob
    /\ UNCHANGED <<store, fetch, started>>

StoreNext ==
    \/ StartFetch \/ FetchDay \/ FetchWrite \/ FetchStops
    \/ StartImport \/ ImportFile \/ DeriveRead \/ WriteDerived \/ StartAggregate
    \/ StartPipeline \/ FillRead \/ FillWrite \/ SmoothRead \/ SmoothWrite \/ AuditSeries \/ NextSeries
    \/ Report \/ JobStops

StoreSpec == StoreInit /\ [][StoreNext]_storeVars

-----------------------------------------------------------------------------
(* Properties.                                                             *)

\* A row holds a price from after its own span only if it goes back to a file
\* that does not fit its timeframe or to an aggregation into a finer one.
\* Without these a backtest that reads the store sees no future, whatever was
\* filled, derived, downloaded and cleaned over one another.
NoLookahead ==
    \A tf \in Timeframes : \A t \in DOMAIN store[tf] :
        store[tf][t].odd \/ \A m \in Held(store[tf][t]) : m < t + Seconds[tf]

\* Violated: no row at all holds a price from after its own span.  The aggregate
\* command does not look which of its two timeframes is the coarser one, and no
\* import looks whether a file's rows lie on the grid.
NeverAhead ==
    \A tf \in Timeframes : \A t \in DOMAIN store[tf] :
        \A m \in Held(store[tf][t]) : m < t + Seconds[tf]

\* The cleaning pipeline never changes the prices of a row, not even of one
\* that a download wrote after the pipeline read the series (gap_filler.rs:16:
\* "real bars already in the DB are never overwritten").
CleaningKeepsPrices ==
    [][job.step \in {"fill", "filling", "smooth", "smoothing", "audit", "audited"} /\ fetch' = fetch =>
        \A tf \in Timeframes :
            /\ DOMAIN store[tf] \subseteq DOMAIN store'[tf]
            /\ \A t \in DOMAIN store[tf] :
                [store'[tf][t] EXCEPT !.vol = 0] = [store[tf][t] EXCEPT !.vol = 0]]_storeVars

\* A gap with room for a bar that the audit reports after the fill has an end
\* that the filler never saw: what it saw, it closed, whatever was written in
\* between.
AuditGapsAreNew ==
    job.step = "audited" =>
        LET tf == Head(job.queue)
        IN  \A w \in UnexpectedGaps(DOMAIN job.snap, tf) :
                w[2] - w[1] >= 2 * Seconds[tf] => {w[1], w[2]} \ job.seen # {}

\* A second download of a day never takes prices away from a row: the hours an
\* earlier download got stay in the bars made of them.
DownloadKeepsMinutes ==
    [][fetch' # fetch => \A tf \in Timeframes :
        \A t \in DOMAIN store[tf] : store[tf][t].prices \subseteq store'[tf][t].prices]_storeVars

\* A row made of ticks is never replaced by one that is not.
RealStaysReal ==
    [][\A tf \in Timeframes :
        \A t \in DOMAIN store[tf] : store'[tf][t].made => store[tf][t].made]_storeVars

\* A volume counted from ticks is only changed by counting again.
CountedVolumeKept ==
    [][job.step = "smoothing" /\ fetch' = fetch =>
        \A tf \in Timeframes :
            \A t \in DOMAIN store[tf] :
                store[tf][t].vol > 0 => store'[tf][t].vol = store[tf][t].vol]_storeVars

\* Rows without ticks can be told from the others by their volume
\* (gap_filler.rs:10).
SyntheticHasNoVolume ==
    \A tf \in Timeframes : \A t \in DOMAIN store[tf] : store[tf][t].made => store[tf][t].vol = 0

\* A report that passes comes from a series without a hole longer than a weekend.
PassedHasNoHole ==
    job.step \in {"done", "audited"} /\ job.passed =>
        \A w \in Neighbours(DOMAIN job.snap) : w[2] - w[1] < 4 * DayLen

=============================================================================
