------------------------------ MODULE TrendLog ------------------------------
(***************************************************************************)
(* A Trend Log object: trendlog.c, with the requests h_rr.c lets through.  *)
(*                                                                         *)
(* LogInfo is a record of the code's TL_LOG_INFO and the log's buffer.     *)
(* Sequence numbers are counted modulo Word.  A record carries, for the    *)
(* properties only, its number without wrap-around; "records" is the log   *)
(* that a buffer of TL_MAX_ENTRIES records ought to hold.                  *)
(***************************************************************************)
EXTENDS Integers, Sequences, FiniteSetsExt

CONSTANTS
    TL_MAX_ENTRIES,   \* records a log holds
    Word,             \* 2^32 in the code
    FirstTotal,       \* ulTotalRecordCount at start-up, 10000 in the code
    Capacity,         \* records that fit in one APDU
    Intervals,        \* the values of Log_Interval, in seconds
    Offsets,          \* the values of Interval_Offset
    Counts,           \* the counts of ReadRange requests
    MaxTime, MaxWrites,
    Wild              \* a start or stop time with a wildcard in it

ASSUME TrendLogAssumption ==
    /\ TL_MAX_ENTRIES \in Nat \ {0} /\ Word \in Nat /\ FirstTotal \in TL_MAX_ENTRIES .. Word - 1
    /\ Capacity \in Nat \ {0} /\ MaxTime \in Nat /\ MaxWrites \in Nat
    /\ Intervals \subseteq Nat \ {0} /\ Offsets \subseteq Nat
    /\ Counts \subseteq -(Word \div 2) .. (Word \div 2) /\ 0 \notin Counts
    /\ Wild \notin 0 .. MaxTime

VARIABLES
    LogInfo, tNow,
    last_seconds,     \* when the main loop last ran the timers
    records,          \* history: the log as it ought to be
    tlWrites          \* writes so far

tlVars == <<LogInfo, tNow, last_seconds, records, tlWrites>>

StatusKinds == {"log_disabled", "log_enabled", "buffer_purged"}

Kinds == StatusKinds \cup {"reading"}

Times == 0 .. MaxTime

Newest(log, n) == SubSeq(log, Max({1, Len(log) - n + 1}), Len(log))

-----------------------------------------------------------------------------
(* Trend_Log_Init fills the log with test records.                         *)

TestRecord(i) == [no |-> FirstTotal - TL_MAX_ENTRIES + i, time |-> 0, kind |-> "reading"]

TLInit ==
    /\ \E i \in Intervals, t \in Times :
         LogInfo = [Logs |-> [i0 \in 0 .. TL_MAX_ENTRIES - 1 |-> TestRecord(i0 + 1)],
                    iIndex |-> 0, ulRecordCount |-> TL_MAX_ENTRIES,
                    ulTotalRecordCount |-> FirstTotal, tLastDataTime |-> 0,
                    bAlignIntervals |-> TRUE, bEnable |-> TRUE, bStopWhenFull |-> FALSE,
                    bTrigger |-> FALSE, LoggingType |-> "POLLED", ulIntervalOffset |-> 0,
                    ulLogInterval |-> i, start |-> 0, stop |-> t]
    /\ tNow = 0 /\ last_seconds = 0
    /\ records = [i \in 1 .. TL_MAX_ENTRIES |-> TestRecord(i)]
    /\ tlWrites = 0

-----------------------------------------------------------------------------
(* Putting a record into the circular buffer: the tails of                 *)
(* TL_Insert_Status_Rec and TL_fetch_property.                             *)

TL_Is_Enabled(log) ==
    /\ log.bEnable
    /\ ~(log.start # Wild /\ log.stop # Wild /\ log.stop < log.start)
    /\ log.start = Wild \/ tNow >= log.start
    /\ log.stop = Wild \/ tNow <= log.stop

Numbered(kind) ==
    [no |-> records[Len(records)].no + 1, time |-> tNow, kind |-> kind]

Insert(log, rec) ==
    [log EXCEPT !.Logs[log.iIndex] = rec,
                !.iIndex = IF @ + 1 >= TL_MAX_ENTRIES THEN 0 ELSE @ + 1,
                !.ulTotalRecordCount = (@ + 1) % Word,
                !.ulRecordCount = IF @ < TL_MAX_ENTRIES THEN @ + 1 ELSE @]

Record(log, kind) ==
    /\ LogInfo' = Insert(log, Numbered(kind))
    /\ records' = Newest(Append(records, Numbered(kind)), TL_MAX_ENTRIES)

\* A write that may switch the log on or off says so in the log.
Switched(log) ==
    CASE TL_Is_Enabled(LogInfo) /\ ~TL_Is_Enabled(log) -> Record(log, "log_disabled")
      [] ~TL_Is_Enabled(LogInfo) /\ TL_Is_Enabled(log) -> Record(log, "log_enabled")
      [] OTHER -> LogInfo' = log /\ UNCHANGED records

Purge(log) ==
    /\ LogInfo' = Insert([log EXCEPT !.ulRecordCount = 0, !.iIndex = 0],
                         Numbered("buffer_purged"))
    /\ records' = <<Numbered("buffer_purged")>>

-----------------------------------------------------------------------------
(* Trend_Log_Write_Property, by property.                                  *)

Full(log) == log.ulRecordCount = TL_MAX_ENTRIES

Write_Enable(b) ==
    /\ ~(~LogInfo.bEnable /\ LogInfo.bStopWhenFull /\ Full(LogInfo) /\ b)
    /\ LogInfo.bEnable # b
    /\ Switched([LogInfo EXCEPT !.bEnable = b])

Write_Stop_When_Full(b) ==
    /\ LogInfo.bStopWhenFull # b
    /\ LET log == [LogInfo EXCEPT !.bStopWhenFull = b]
       IN  IF b /\ Full(log) /\ log.bEnable
           THEN Record([log EXCEPT !.bEnable = FALSE], "log_disabled")
           ELSE LogInfo' = log /\ UNCHANGED records

Write_Record_Count == Purge(LogInfo)

\* A new reference for the logged property; the same one changes nothing.
Write_Log_Device_Object_Property == Purge(LogInfo)

Write_Logging_Type(type) ==
    /\ LogInfo' = [LogInfo EXCEPT
                     !.LoggingType = type,
                     !.ulLogInterval = CASE type = "TRIGGERED" -> 0
                                         [] @ = 0 -> Max(Intervals)
                                         [] OTHER -> @]
    /\ UNCHANGED records

Write_Start_Time(t) == Switched([LogInfo EXCEPT !.start = t])

Write_Stop_Time(t) == Switched([LogInfo EXCEPT !.stop = t])

Write_Log_Interval(i) ==
    /\ LogInfo.LoggingType # "TRIGGERED"
    /\ LogInfo' = [LogInfo EXCEPT !.ulLogInterval = i]
    /\ UNCHANGED records

Write_Align_Intervals(b) ==
    LogInfo' = [LogInfo EXCEPT !.bAlignIntervals = b] /\ UNCHANGED records

Write_Interval_Offset(o) ==
    LogInfo' = [LogInfo EXCEPT !.ulIntervalOffset = o] /\ UNCHANGED records

Write_Trigger(b) ==
    /\ ~(LogInfo.LoggingType = "POLLED" /\ LogInfo.bAlignIntervals)
    /\ LogInfo' = [LogInfo EXCEPT !.bTrigger = b]
    /\ UNCHANGED records

Trend_Log_Write_Property ==
    /\ tlWrites < MaxWrites
    /\ tlWrites' = tlWrites + 1
    /\ \/ \E b \in BOOLEAN : Write_Enable(b)
       \/ \E b \in BOOLEAN : Write_Stop_When_Full(b)
       \/ Write_Record_Count
       \/ Write_Log_Device_Object_Property
       \/ \E type \in {"POLLED", "TRIGGERED"} : Write_Logging_Type(type)
       \/ \E t \in Times \cup {Wild} : Write_Start_Time(t)
       \/ \E t \in Times \cup {Wild} : Write_Stop_Time(t)
       \/ \E i \in Intervals : Write_Log_Interval(i)
       \/ \E b \in BOOLEAN : Write_Align_Intervals(b)
       \/ \E o \in Offsets : Write_Interval_Offset(o)
       \/ \E b \in BOOLEAN : Write_Trigger(b)
    /\ UNCHANGED <<tNow, last_seconds>>

-----------------------------------------------------------------------------
(* trend_log_timer.  The record of a property that cannot be read holds    *)
(* the error: a reading like any other.                                    *)

Due_OnTheDot(log) ==
    CASE log.LoggingType = "TRIGGERED" -> log.bTrigger
      [] log.bAlignIntervals ->
            tNow % log.ulLogInterval = log.ulIntervalOffset % log.ulLogInterval
      [] OTHER -> tNow - log.tLastDataTime >= log.ulLogInterval \/ log.bTrigger

Due(log) ==
    CASE log.LoggingType = "TRIGGERED" -> log.bTrigger
      [] log.bAlignIntervals ->
            \/ tNow % log.ulLogInterval = log.ulIntervalOffset % log.ulLogInterval
            \/ tNow - log.tLastDataTime > log.ulLogInterval
      [] OTHER -> tNow - log.tLastDataTime >= log.ulLogInterval \/ log.bTrigger

TL_fetch_property(log) == Record([log EXCEPT !.tLastDataTime = tNow], "reading")

trend_log_timer ==
    /\ last_seconds < tNow
    /\ last_seconds' = tNow
    /\ LET log == [LogInfo EXCEPT !.bTrigger = FALSE]
       IN  CASE TL_Is_Enabled(LogInfo) /\ Due(LogInfo) -> TL_fetch_property(log)
             [] TL_Is_Enabled(LogInfo) /\ ~Due(LogInfo) -> LogInfo' = log /\ UNCHANGED records
             [] OTHER -> UNCHANGED <<LogInfo, records>>
    /\ UNCHANGED <<tNow, tlWrites>>

\* The main loop comes round at least every two seconds.
Clock ==
    /\ tNow < MaxTime /\ tNow - last_seconds < 2
    /\ tNow' = tNow + 1
    /\ UNCHANGED <<LogInfo, last_seconds, records, tlWrites>>

\* The clock does not stop; the model's does.
EndOfTime == tNow = MaxTime /\ last_seconds = MaxTime /\ UNCHANGED tlVars

TLNext == Trend_Log_Write_Property \/ trend_log_timer \/ Clock \/ EndOfTime

TLFairness == WF_tlVars(trend_log_timer) /\ WF_tlVars(Clock)

TLSpec == TLInit /\ [][TLNext]_tlVars /\ TLFairness

-----------------------------------------------------------------------------
(* rr_trend_log_encode: what a ReadRange request is answered.              *)

Nothing == [items |-> <<>>, first_item |-> FALSE, last_item |-> FALSE,
            more_items |-> FALSE, FirstSequence |-> 0]

\* Entry numbers are cast to int; a negative one lies outside the log.
TL_encode_entry(iEntry) ==
    LET i == IF iEntry < Word \div 2 THEN iEntry ELSE iEntry - Word
        base == IF Full(LogInfo) THEN LogInfo.iIndex ELSE 0
    IN  IF base + i - 1 >= 0
        THEN LogInfo.Logs[(base + i - 1) % TL_MAX_ENTRIES]
        ELSE [no |-> 0, time |-> 0, kind |-> "outside"]

\* Encodes n entries from entry uiIndex on, or as many as fit.
Encode(uiIndex, n, seq) ==
    LET fit == Min({n, Capacity})
    IN  [items |-> [j \in 1 .. fit |-> TL_encode_entry((uiIndex + j - 1) % Word)],
         first_item |-> uiIndex = 1,
         last_item |-> (uiIndex + fit - 1) % Word = LogInfo.ulRecordCount,
         more_items |-> n > Capacity,
         FirstSequence |-> seq]

TL_encode_by_position(ref, count) ==
    LET start == IF count < 0 THEN Max({1, ref + count + 1}) ELSE ref
        n == CASE count > 0 -> count [] ref + count + 1 < 1 -> ref [] OTHER -> -count
    IN  IF start > LogInfo.ulRecordCount
        THEN Nothing
        ELSE Encode(start, Min({start + n - 1, LogInfo.ulRecordCount}) - start + 1, 0)

uiFirstSeq == (LogInfo.ulTotalRecordCount - (LogInfo.ulRecordCount - 1)) % Word

\* The part of the requested sequence numbers that is in the log; <<>> if none.
Clipped_SignedOnly(uiBegin, uiEnd) ==
    LET total == LogInfo.ulTotalRecordCount
    IN  IF uiEnd < uiFirstSeq \/ uiBegin > total
        THEN <<>>
        ELSE <<Max({uiBegin, uiFirstSeq}), Min({uiEnd, total})>>

Clipped(uiBegin, uiEnd) ==
    LET total == LogInfo.ulTotalRecordCount
        bWrapReq == uiBegin > uiEnd
        bWrapLog == uiFirstSeq > total
    IN  CASE ~bWrapReq /\ ~bWrapLog /\ (uiEnd < uiFirstSeq \/ uiBegin > total) -> <<>>
          [] ~bWrapReq /\ ~bWrapLog /\ ~(uiEnd < uiFirstSeq \/ uiBegin > total) ->
                <<Max({uiBegin, uiFirstSeq}), Min({uiEnd, total})>>
          [] (bWrapReq \/ bWrapLog) /\ uiBegin > total /\ uiEnd < uiFirstSeq -> <<>>
          [] OTHER ->
                CASE ~bWrapLog /\ uiEnd < uiFirstSeq -> <<Max({uiBegin, uiFirstSeq}), total>>
                  [] ~bWrapLog /\ uiEnd >= uiFirstSeq -> <<uiFirstSeq, Min({uiEnd, total})>>
                  [] bWrapLog /\ ~bWrapReq /\ uiBegin > total ->
                        <<Min({uiBegin, uiFirstSeq}), uiEnd>>
                  [] bWrapLog /\ ~bWrapReq /\ uiBegin <= total -> <<uiBegin, Min({uiEnd, total})>>
                  [] OTHER -> <<Max({uiBegin, uiFirstSeq}), Min({uiEnd, total})>>

TL_encode_by_sequence(ref, count) ==
    LET range == IF count < 0 THEN Clipped((ref + count + 1) % Word, ref)
                 ELSE Clipped(ref, (ref + count - 1) % Word)
    IN  IF range = <<>> THEN Nothing
        ELSE Encode((range[1] - uiFirstSeq + 1) % Word, (range[2] - range[1] + 1) % Word, range[1])

\* Searches from the newest record back, or from the oldest on.
TL_encode_by_time(ref, count) ==
    LET n == LogInfo.ulRecordCount
        oldest == IF Full(LogInfo) THEN LogInfo.iIndex ELSE 0
        stamp(i) == LogInfo.Logs[(oldest + i) % TL_MAX_ENTRIES].time
        before == {i \in 0 .. n - 1 : stamp(i) < ref}
        after == {i \in 0 .. n - 1 : stamp(i) > ref}
    IN  CASE count < 0 /\ before # {} ->
                LET start == Max({0, Max(before) + count + 1})
                IN  Encode(start + 1, Max(before) - start + 1, (uiFirstSeq + start) % Word)
          [] count > 0 /\ after # {} ->
                Encode(Min(after) + 1, Min({count, n - Min(after)}),
                       (uiFirstSeq + Min(after)) % Word)
          [] OTHER -> Nothing

-----------------------------------------------------------------------------
(* Properties.                                                             *)

\* Every field stays in its range: the index inside the buffer, the counters within
\* their words, and as many records as the buffer can hold.
TLTypeOK ==
    /\ LogInfo.iIndex \in 0 .. TL_MAX_ENTRIES - 1
    /\ LogInfo.ulRecordCount \in 1 .. TL_MAX_ENTRIES
    /\ LogInfo.ulTotalRecordCount \in 0 .. Word - 1
    /\ LogInfo.ulLogInterval \in Intervals \cup {0}
    /\ LogInfo.LoggingType = "POLLED" => LogInfo.ulLogInterval # 0
    /\ {LogInfo.start, LogInfo.stop} \subseteq Times \cup {Wild}
    /\ \A r \in {records[i] : i \in DOMAIN records} : r.time \in Times /\ r.kind \in Kinds
    /\ tNow \in Times /\ last_seconds \in Times

\* What the records of "wanted" (indices into the ideal log) should be answered with.
Ideal(wanted, seq) ==
    IF wanted = {} THEN Nothing
    ELSE LET first == Min(wanted)
             fit == Min({Cardinality(wanted), Capacity})
         IN  [items |-> SubSeq(records, first, first + fit - 1),
              first_item |-> first = 1, last_item |-> first + fit - 1 = Len(records),
              more_items |-> Cardinality(wanted) > Capacity,
              FirstSequence |-> IF seq THEN records[first].no % Word ELSE 0]

\* A ReadRange by position is answered with exactly the records at those positions of
\* the log, in order, with the right flags, wherever the circular buffer wraps
\* (TL_encode_by_position).
ByPosition ==
    \A ref \in 1 .. TL_MAX_ENTRIES + 1, count \in Counts :
        TL_encode_by_position(ref, count) =
            Ideal({i \in DOMAIN records : IF count > 0 THEN i \in ref .. ref + count - 1
                                          ELSE i \in ref + count + 1 .. ref}, FALSE)

\* A ReadRange by sequence number is answered with exactly the records of the log that
\* bear the requested numbers, also where the request runs past the end of the numbers
\* and after a purge (TL_encode_by_sequence).
BySequence ==
    \A ref \in 0 .. Word - 1, count \in Counts :
        TL_encode_by_sequence(ref, count) =
            Ideal({i \in DOMAIN records :
                      IF count > 0 THEN (records[i].no - ref) % Word < count
                      ELSE (ref - records[i].no) % Word < -count}, TRUE)

\* A ReadRange by time is answered with the first records after the time or the last
\* ones before it, and with the sequence number of the first (TL_encode_by_time).
ByTime ==
    \A ref \in Times, count \in Counts :
        LET after == {i \in DOMAIN records : records[i].time > ref}
            before == {i \in DOMAIN records : records[i].time < ref}
        IN  TL_encode_by_time(ref, count) =
                Ideal(IF count > 0
                      THEN {i \in after : Cardinality({j \in after : j < i}) < count}
                      ELSE {i \in before : Cardinality({j \in before : j > i}) < -count}, TRUE)

\* ReadRange gives the records that were asked for by position, by sequence number
\* and by time, whatever was logged, purged and overwritten before (TL_encode_entry and
\* the index, record count and total the log keeps for it).
ReadsRange == TLTypeOK /\ ByPosition /\ BySequence /\ ByTime

\* Whenever the timer has run, the last reading of an enabled polled log is no older than
\* the interval, also if the loop missed the aligned second or the interval, offset or
\* times were written since the last reading (trend_log_timer).
NeverOverdue ==
    [][last_seconds' # last_seconds /\ LogInfo.LoggingType = "POLLED" /\ TL_Is_Enabled(LogInfo)
        => tNow - LogInfo'.tLastDataTime <= LogInfo.ulLogInterval]_tlVars
=============================================================================
