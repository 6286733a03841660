---------------------------- MODULE StatusCommand ----------------------------
(***************************************************************************)
(* src/remoteControlCommands/statusCommand.cpp, equalizerCommand.cpp and   *)
(* src/helpers/equalizerBands.h: the player's properties as clients see    *)
(* them, in percent of a range.  The player keeps a float, a client writes *)
(* and reads an integer, and the two conversions are not inverse to each   *)
(* other.  The whole of a command's work is one task on the main thread.   *)
(***************************************************************************)
EXTENDS Float32

CONSTANTS
    RangeIds,   \* continuous properties: some of DOMAIN RangeFor
    BoolIds,    \* properties that are on or off; "equalizer" is one
    Bands       \* the bands of the equalizer, EqualizerBandCount of them

Ids == RangeIds \cup Bands
Percents == 0 .. 100

VARIABLES
    value,   \* value[id]: the player's float
    flag,    \* flag[id]
    reply,   \* the latest answer, and what the command had written
    origin   \* (history) origin[id]: what was last written to id that was not
             \* just the answer to the write or the read before

statusVars == <<value, flag, reply, origin>>

-----------------------------------------------------------------------------
Half == Canonical(1, -1)
RangeProperty(min, max) == [min |-> min, max |-> max, pivotPercent |-> 0, pivotValue |-> min]
WithPivot(percent, r) == [r EXCEPT !.pivotPercent = percent, !.pivotValue = FromInt(1)]
EqualizerBandRangeDb == FromInt(15)

\* (mutant) Speed and tempo are spread evenly over their ranges.
RangeForWithoutPivots ==
    LET unit == RangeProperty(FromInt(0), FromInt(1))
        rate == RangeProperty(Half, FromInt(3))
    IN  [volume |-> unit, reverb |-> unit, echo |-> unit, chorus |-> unit, flanger |-> unit,
         balance  |-> RangeProperty(FromInt(-1), FromInt(1)),
         speed    |-> rate,
         trueBass |-> RangeProperty(FromInt(0), FromInt(2)),
         enhancer |-> RangeProperty(FromInt(1), FromInt(5)),
         tempo    |-> rate,
         pitch    |-> RangeProperty(FromInt(-10), FromInt(10)),
         preamp   |-> RangeProperty(FromInt(-15), FromInt(15))]

\* RangeFor.
RangeFor ==
    LET unit == RangeProperty(FromInt(0), FromInt(1))
        rate == RangeProperty(Half, FromInt(3))
    IN  [volume |-> unit, reverb |-> unit, echo |-> unit, chorus |-> unit, flanger |-> unit,
         balance  |-> RangeProperty(FromInt(-1), FromInt(1)),
         speed    |-> WithPivot(50, rate),
         trueBass |-> RangeProperty(FromInt(0), FromInt(2)),
         enhancer |-> RangeProperty(FromInt(1), FromInt(5)),
         tempo    |-> WithPivot(28, rate),
         pitch    |-> RangeProperty(FromInt(-10), FromInt(10)),
         preamp   |-> RangeProperty(FromInt(-15), FromInt(15))]

\* The part of the range below the pivot, or the one above it.
Segment(lower, r) ==
    IF lower THEN [from |-> r.min, to |-> r.pivotValue, fromPercent |-> 0, toPercent |-> r.pivotPercent]
    ELSE [from |-> r.pivotValue, to |-> r.max, fromPercent |-> r.pivotPercent, toPercent |-> 100]

\* (mutant) The part above the pivot is used for every value.
ToPercentAbovePivot(v, r) ==
    LET s == Segment(FALSE, r)
    IN  Floor(Add(FromInt(s.fromPercent),
                  Mul(Div(Sub(v, s.from), Sub(s.to, s.from)), FromInt(s.toPercent - s.fromPercent))))

ToPercent(v, r) ==
    LET s == Segment(r.pivotPercent > 0 /\ Less(v, r.pivotValue), r)
    IN  Floor(Add(FromInt(s.fromPercent),
                  Mul(Div(Sub(v, s.from), Sub(s.to, s.from)), FromInt(s.toPercent - s.fromPercent))))

FromPercent(percent, r) ==
    LET s == Segment(r.pivotPercent > 0 /\ percent < r.pivotPercent, r)
    IN  Add(s.from, Div(Mul(Sub(s.to, s.from), FromInt(percent - s.fromPercent)),
                        FromInt(s.toPercent - s.fromPercent)))

\* (mutant) The value is read over a wider range than it is written over.
EqualizerDbToPercentOverWiderRange(db) ==
    Floor(Mul(Div(Add(db, EqualizerBandRangeDb), FromInt(32)), FromInt(100)))

EqualizerDbToPercent(db) ==
    Floor(Mul(Div(Add(db, EqualizerBandRangeDb), Mul(FromInt(2), EqualizerBandRangeDb)), FromInt(100)))

EqualizerPercentToDb(percent) ==
    Add(Sub(FromInt(0), EqualizerBandRangeDb),
        Div(Mul(Mul(FromInt(2), EqualizerBandRangeDb), FromInt(percent)), FromInt(100)))

\* The bands have numbers, not names.
ASSUME IdAssumption ==
    /\ RangeIds \subseteq DOMAIN RangeFor /\ Bands \cap DOMAIN RangeFor = {}
    /\ "volume" \in RangeIds /\ "equalizer" \in BoolIds

\* The float that a percentage is written as, and the percentage that a float
\* is read as, for every value that a write can leave.
Applied ==
    [id \in Ids |-> [percent \in Percents |->
        IF id \in Bands THEN EqualizerPercentToDb(percent) ELSE FromPercent(percent, RangeFor[id])]]
Answered ==
    [id \in Ids |-> [v \in {Applied[id][percent] : percent \in Percents} |->
        IF id \in Bands THEN EqualizerDbToPercent(v) ELSE ToPercent(v, RangeFor[id])]]

\* What the panel of the player's state shows as the volume.
PanelVolume == LRound(Mul(value["volume"], FromInt(100)))

-----------------------------------------------------------------------------
\* The percentages at which a property has no effect, or is at its end, and
\* the player's values for them: the app's buttons for resetting write them.
Neutral ==
    [id \in Ids |->
        CASE id \in Bands \cup {"balance", "pitch", "preamp"} -> [percent |-> 50, value |-> FromInt(0)]
          [] id = "speed" -> [percent |-> 50, value |-> FromInt(1)]
          [] id = "tempo" -> [percent |-> 28, value |-> FromInt(1)]
          [] id = "enhancer" -> [percent |-> 0, value |-> FromInt(1)]
          [] OTHER -> [percent |-> 0, value |-> FromInt(0)]]

NoReply == [written |-> <<>>, answered |-> <<>>]

\* The player as it is when nothing has been set.
StatusInit ==
    /\ value = [id \in Ids |-> Neutral[id].value]
    /\ flag = [id \in BoolIds |-> FALSE]
    /\ reply = NoReply
    /\ origin = [id \in Ids |-> Neutral[id].percent]

\* Bound: one property at a time is away from its neutral value, and commands
\* are about that one.
OnlyMoves(id) == \A other \in Ids \ {id} : value[other] = Neutral[other].value

\* A write of percents, a function of some of the ids, and the answer for the
\* ids in read.
WriteAndRead(percents, read) ==
    /\ value' = [id \in Ids |-> IF id \in DOMAIN percents THEN Applied[id][percents[id]] ELSE value[id]]
    /\ reply' = [written |-> percents, answered |-> [id \in read |-> Answered[id][value'[id]]]]
    /\ origin' = [id \in Ids |->
                     IF \/ id \notin DOMAIN percents
                        \/ id \in DOMAIN reply.answered /\ percents[id] = reply.answered[id]
                     THEN origin[id] ELSE percents[id]]

\* Access for a continuous property or a band, with a value or without.
StatusRead(id) == OnlyMoves(id) /\ WriteAndRead(<<>>, {id}) /\ UNCHANGED flag
StatusWrite(id, percent) ==
    /\ OnlyMoves(id)
    /\ WriteAndRead([i \in {id} |-> percent], {id})
    /\ UNCHANGED flag

\* Access for a property that is on or off; the answer is what was written.
StatusSwitch(id, on) ==
    /\ flag' = [flag EXCEPT ![id] = on]
    /\ reply' = NoReply
    /\ UNCHANGED <<value, origin>>

\* The Equalizer command: all bands or none, and perhaps the switch.
Equalizer(active, percents) ==
    /\ DOMAIN percents \in {{}, Bands}
    /\ WriteAndRead(percents, Bands)
    /\ flag' = [flag EXCEPT !["equalizer"] = IF active = {} THEN @ ELSE TRUE \in active]

\* Lists of percentages for the bands: none, or one band is moved.
BandLists ==
    {<<>>} \cup {[b \in Bands |-> IF b = moved THEN p ELSE 50] : moved \in Bands, p \in Percents}

StatusNext ==
    \/ \E id \in Ids : StatusRead(id)
    \/ \E id \in Ids, percent \in Percents : StatusWrite(id, percent)
    \/ \E id \in BoolIds, on \in BOOLEAN : StatusSwitch(id, on)
    \/ /\ \A id \in RangeIds : value[id] = Neutral[id].value
       /\ \E active \in {{}, {TRUE}, {FALSE}}, percents \in BandLists : Equalizer(active, percents)

-----------------------------------------------------------------------------
\* The answer to a write is the value written or one less, for every property
\* and percentage, through Status or Equalizer; the panel shows the volume
\* exactly.
EchoWithinOne ==
    /\ \A id \in DOMAIN reply.written :
          reply.answered[id] \in {reply.written[id] - 1, reply.written[id]}
    /\ "volume" \in DOMAIN reply.written => PanelVolume = reply.written["volume"]

\* A property that is reset has its neutral value exactly and reads back as it
\* was written, and so do the ends of the range.
NeutralIsExact ==
    \A id \in DOMAIN reply.written :
       /\ reply.written[id] = Neutral[id].percent => value[id] = Neutral[id].value
       /\ reply.written[id] \in {Neutral[id].percent, 0, 100} => reply.answered[id] = reply.written[id]

\* The most that percentages wander.
MaxDrift == 5

\* A client that writes back what it was told, any number of times, moves a
\* property by MaxDrift at most.
RewritingSettles ==
    \A id \in DOMAIN reply.answered : reply.answered[id] \in (origin[id] - MaxDrift) .. origin[id]
=============================================================================
