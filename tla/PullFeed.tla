------------------------------ MODULE PullFeed ------------------------------
(***************************************************************************)
(* A pull feed account as its readers see it: get_value, which a program   *)
(* calls with limits of its own on age and number; the result that is      *)
(* stored in the account, with the getters for it and for the samples      *)
(* behind it; and what becomes of a value that a program holds on to as a  *)
(* SwitchboardDecimal.                                                     *)
(*                                                                         *)
(* The submissions are packed at the front of the array; whose place is    *)
(* whose makes no difference to the median, so a place is an oracle here.  *)
(* The timestamp of a submission is told apart by the slot it was signed   *)
(* at.                                                                     *)
(***************************************************************************)
EXTENDS SwitchboardDecimal, FiniteSetsExt

CONSTANTS
    MaxSubmissions,  \* 32 in the source
    MaxStaleness,    \* max_staleness of the feed
    MinSampleSize,   \* min_sample_size of the feed
    Liars,           \* places of the oracles that may submit any value
    Honest,          \* values that the other oracles submit
    Values,          \* values of submissions: i128
    Precision,       \* decimal places of a value: 18 in the source
    Word,            \* values of a u64
    Ages,            \* values for max_staleness in get_value
    Empty,           \* a submission of zeros
    NoValue,         \* what a program that holds no value holds
    Scales,          \* bound: the numbers of decimal places asked for
    MaxSlot          \* bound: the last slot

Places == 1 .. MaxSubmissions
Slots == 0 .. MaxSlot

ASSUME FeedAssumption ==
    /\ MaxSubmissions \in Nat \ {0} /\ MaxSlot \in Nat
    /\ MaxStaleness \in Nat /\ MinSampleSize \in Nat \ {0}
    /\ Liars \subseteq Places
    /\ Values \subseteq Int /\ Honest \subseteq Values
    /\ \A v \in Honest : 0 < v /\ v <= DecimalMax
    /\ Word \in Nat /\ MaxSlot < Word /\ MaxStaleness < Word
    /\ Ages \subseteq 0 .. Word - 1
    /\ Empty \notin [slot : 1 .. MaxSlot, value : Values] /\ NoValue \notin Values
    /\ Precision \in 0 .. DecimalScale /\ Scales \subseteq Nat

VARIABLES
    clock,        \* Clock.slot
    submissions,  \* submissions
    landed,       \* the largest landed_at of the submissions
    result,       \* result
    checked,      \* whether the program was built with overflow checks
    held          \* program: the value it holds, and where that comes from

feed == <<submissions, landed, result>>
vars == <<clock, feed, checked, held>>

NoResult == [slot |-> 0, value |-> 0, submission_idx |-> 1]

\* From<Decimal>, of a value that get_value has returned.  made and coarsest
\* are history: the number as it was made, and the fewest places it has had;
\* so is wild: it was moved by more places than 10_i128.pow can reach.
Holding(v) ==
    LET d == [mantissa |-> v, scale |-> Precision]
    IN  [number |-> d, made |-> d, coarsest |-> Precision, wild |-> FALSE]

\* A program holds a value from a feed it does not look at any more, or it looks
\* at the feed.
Init ==
    /\ clock = 0
    /\ submissions = [p \in Places |-> Empty]
    /\ landed = 0
    /\ result = NoResult
    /\ checked \in BOOLEAN
    /\ held \in {NoValue} \cup {Holding(v) : v \in {x \in Values : Magnitude(x) <= DecimalMax}}

Tick ==
    /\ held = NoValue /\ clock < MaxSlot
    /\ clock' = clock + 1
    /\ UNCHANGED <<feed, checked, held>>

-----------------------------------------------------------------------------
(***************************************************************************)
(* Submissions and the result computed from them.                          *)
(***************************************************************************)

\* take_while: the submissions before the first empty one.
Taken == {p \in Places : \A q \in 1 .. p : submissions[q] # Empty}

\* The values of the submissions at ps.
ValuesOf(subs, ps) == [p \in ps |-> subs[p].value]

\* Mutant: the values are not sorted.
lower_bound_median_Unsorted(numbers) ==
    LET Ahead(i) == {j \in DOMAIN numbers : j < i}
    IN  numbers[CHOOSE i \in DOMAIN numbers :
                  Cardinality(Ahead(i)) = Cardinality(DOMAIN numbers) \div 2]

\* numbers[len / 2] of the sorted values, counted from 0: sort is stable, and
\* puts a number behind the smaller ones and those that are equal and before it.
lower_bound_median(numbers) ==
    LET Ahead(i) == {j \in DOMAIN numbers : numbers[j] < numbers[i]
                                             \/ (numbers[j] = numbers[i] /\ j < i)}
    IN  numbers[CHOOSE i \in DOMAIN numbers :
                  Cardinality(Ahead(i)) = Cardinality(DOMAIN numbers) \div 2]

\* "The median value of the submissions needed", the slot at which it was signed
\* and the index of the submission, which is counted from 1 here: of those no older
\* than max_staleness now.  With fewer than min_sample_size of them the last result
\* stands.
Recomputed(subs) ==
    LET considered == {p \in Places : subs[p] # Empty /\ subs[p].slot + MaxStaleness >= clock}
        median == lower_bound_median(ValuesOf(subs, considered))
        p == CHOOSE q \in considered : subs[q].value = median
    IN  IF Cardinality(considered) < MinSampleSize THEN result
        ELSE [slot |-> subs[p].slot, value |-> median, submission_idx |-> p]

Store(p, submission) ==
    /\ submissions' = [submissions EXCEPT ![p] = submission]
    /\ landed' = clock
    /\ result' = Recomputed([submissions EXCEPT ![p] = submission])
    /\ UNCHANGED <<clock, checked, held>>

\* Mutant: a submission lands anywhere in the array.
Land_Anywhere(p) ==
    /\ held = NoValue
    /\ \E s \in 1 .. clock, v \in IF p \in Liars THEN Values ELSE Honest :
         Store(p, [slot |-> s, value |-> v])

\* An oracle's submission, signed at a slot that has come, takes the place of
\* its last one, or the first that is free, and the result is computed anew.
Land(p) ==
    /\ held = NoValue
    /\ \A q \in 1 .. p - 1 : submissions[q] # Empty
    /\ \E s \in 1 .. clock, v \in IF p \in Liars THEN Values ELSE Honest :
         /\ submissions[p] # Empty => submissions[p].slot <= s
         /\ Store(p, [slot |-> s, value |-> v])

-----------------------------------------------------------------------------
(***************************************************************************)
(* get_value.                                                              *)
(***************************************************************************)

\* clock_slot - max_staleness, if it does not panic.
Oldest(age) == (clock - age) % Word

\* Mutant: the filter is left out.
Fresh_All(age) == Taken

\* Mutant: the comparison is the wrong way round.
Fresh_Swapped(age) == {p \in Taken : submissions[p].slot <= Oldest(age)}

\* filter: those no older than max_staleness.
Fresh(age) == {p \in Taken : submissions[p].slot >= Oldest(age)}

\* The subtraction is made for each submission taken.
Panics(age) == checked /\ clock < age /\ Taken # {}

Fails(e) == [error |-> e, value |-> 0]

get_value(age, min_samples, only_positive) ==
    LET fresh == Fresh(age)
        median == lower_bound_median(ValuesOf(submissions, fresh))
    IN  IF Panics(age) THEN Panic
        ELSE IF Cardinality(fresh) < min_samples \/ fresh = {} THEN Fails("NotEnoughSamples")
        ELSE IF only_positive /\ median <= 0 THEN Fails("IllegalFeedValue")
        ELSE IF Magnitude(median) > DecimalMax THEN Panic
        ELSE Ok(median)

-----------------------------------------------------------------------------
(***************************************************************************)
(* The result in the account.                                              *)
(***************************************************************************)

is_result_vaild == result.slot >= Oldest(MaxStaleness)

result_submission == submissions[result.submission_idx]
result_ts == result_submission.slot

\* The getters of CurrentResult: None of a result without a slot.
Getter(field) == IF result.slot = 0 THEN NoValue ELSE field

\* Mutant: the age of the result is not looked at.
value_Ageless ==
    IF checked /\ clock < MaxStaleness THEN Panic
    ELSE IF Getter(result.value) = NoValue THEN Fails("StaleResult")
    ELSE IF Magnitude(result.value) > DecimalMax THEN Panic
    ELSE Ok(result.value)

\* value: a result without a slot is none, of any age.
value ==
    IF checked /\ clock < MaxStaleness THEN Panic
    ELSE IF ~ is_result_vaild \/ Getter(result.value) = NoValue THEN Fails("StaleResult")
    ELSE IF Magnitude(result.value) > DecimalMax THEN Panic
    ELSE Ok(result.value)

valid_samples == Fresh(MaxStaleness)

\* The submission that landed last is still in its place.
last_update_slot == landed

\* last_update_slot - max_staleness, if it does not panic.
slot_threshold == (last_update_slot - MaxStaleness) % Word

SamplesPanic == checked /\ last_update_slot < MaxStaleness

\* Mutant: a submission just as old as allowed is left out.
current_result_samples_Strict == {p \in Taken : submissions[p].slot > slot_threshold}

current_result_samples == {p \in Taken : submissions[p].slot >= slot_threshold}

\* The smallest and the largest timestamp, (0, 0) of none.
current_result_ts_range ==
    LET times == {submissions[p].slot : p \in current_result_samples}
    IN  IF times = {} THEN <<0, 0>> ELSE <<Min(times), Max(times)>>

-----------------------------------------------------------------------------
(***************************************************************************)
(* A program that holds on to a value: new_with_scale, again and again.    *)
(***************************************************************************)
Rescale(s) ==
    /\ held # NoValue
    /\ LET r == scale_to(held.number, s, checked)
       IN  /\ r.error = "none"
           /\ held' = [held EXCEPT !.number = [mantissa |-> r.value, scale |-> s],
                                   !.coarsest = Min({@, s}),
                                   !.wild = @ \/ ~ FitsI128(TenTo[Magnitude(held.number.scale - s)])]
    /\ UNCHANGED <<clock, feed, checked>>

Next == Tick \/ (\E p \in Places : Land(p)) \/ (\E s \in Scales : Rescale(s))

Spec == Init /\ [][Next]_vars

-----------------------------------------------------------------------------
(***************************************************************************)
(* Properties.                                                             *)
(***************************************************************************)

\* Submissions are packed, and no slot lies ahead of the clock.
FeedInv ==
    /\ clock \in Slots /\ checked \in BOOLEAN
    /\ submissions \in [Places -> [slot : Slots, value : Values] \cup {Empty}]
    /\ \A p \in Places : submissions[p] # Empty =>
          submissions[p].slot \in 1 .. clock /\ p \in Taken
    /\ landed \in 0 .. clock /\ result.slot \in 0 .. clock
    /\ result.slot # 0 => result.submission_idx \in Taken

\* "The submissions in the last max_staleness slots", and how many of them
\* satisfy a condition.
Recent(age) == {p \in Places : submissions[p] # Empty /\ submissions[p].slot + age >= clock}
Count(age, P(_)) == Cardinality({p \in Recent(age) : P(submissions[p].value)})

\* As long as honest oracles are more than half of those whose submissions are
\* recent, and these are numerous enough, get_value answers, and with a value in
\* the range of what honest oracles submit: liars neither bend it, nor make it
\* illegal, nor make its conversion panic.  This is for limits on the age that do
\* not exceed the clock, where the subtraction of the two is one of naturals.
HonestMajorityServed ==
    \A age \in Ages, min_samples \in 0 .. MaxSubmissions, only_positive \in BOOLEAN :
        LET recent == Recent(age)
            r == get_value(age, min_samples, only_positive)
        IN  age <= clock /\ Cardinality(recent) >= min_samples
                /\ Cardinality(recent \cap Liars) < Cardinality(recent \ Liars)
            => /\ r.error = "none"
               /\ \E low, high \in Honest : low <= r.value /\ r.value <= high

\* The value returned is a median by its rank: at most half of the recent values
\* are below it, and fewer than half above it.
MedianByRank ==
    \A age \in Ages :
        LET r == get_value(age, 1, FALSE)
            Below(v) == v < r.value
            Above(v) == v > r.value
        IN  r.error = "none" =>
              /\ 2 * Count(age, Below) <= Cardinality(Recent(age))
              /\ 2 * Count(age, Above) < Cardinality(Recent(age))
              /\ \E p \in Recent(age) : submissions[p].value = r.value

\* value() answers only with a result behind which there still is a submission
\* that is valid now, at its index and as recent as the result says - its oracle's
\* later ones included, which do not change the result if they are too few; and
\* it refuses none that is_result_vaild calls valid, but the one never computed.
ValueHasValidSample ==
    /\ value.error = "none" =>
         /\ is_result_vaild
         /\ result.submission_idx \in valid_samples
         /\ result_submission.slot >= result.slot
    /\ value.error = "StaleResult" => ~ is_result_vaild \/ result = NoResult

\* "All the samples used in the current result": if they are enough for a result,
\* then the stored one is theirs - its submission and timestamp are among them,
\* it has the rank of a median, and with honest oracles in the majority it lies in
\* their range.  In the first max_staleness slots the threshold wraps or panics.
SamplesBehindResult ==
    LET samples == current_result_samples
        below == {p \in samples : submissions[p].value < result.value}
        above == {p \in samples : submissions[p].value > result.value}
    IN  ~ SamplesPanic /\ Cardinality(samples) >= MinSampleSize =>
          /\ result.submission_idx \in samples
          /\ result_submission.value = result.value /\ result_submission.slot = result.slot
          /\ current_result_ts_range[1] <= result_ts /\ result_ts <= current_result_ts_range[2]
          /\ 2 * Cardinality(below) <= Cardinality(samples)
          /\ 2 * Cardinality(above) < Cardinality(samples)
          /\ Cardinality(samples \cap Liars) < Cardinality(samples \ Liars) =>
               \E low, high \in Honest : low <= result.value /\ result.value <= high

\* Once too few submissions are fresh, or the result is stale, waiting does not
\* change it: only another submission does, be it the same again.  Before the
\* limit's age has passed since slot 0 the oldest slot wraps, and this is not so.
StaleStaysStale ==
    [][UNCHANGED feed =>
         /\ MaxStaleness <= clock /\ value.error = "StaleResult" => value'.error = "StaleResult"
         /\ \A age \in Ages, min_samples \in 1 .. MaxSubmissions :
              age <= clock /\ get_value(age, min_samples, FALSE).error = "NotEnoughSamples"
              => get_value(age, min_samples, FALSE)'.error = "NotEnoughSamples"]_vars

\* However often a held value is rescaled, it is short of what it was made from
\* by less than one unit of the fewest places it has had, and never on the other
\* side of it or of zero - unless 10_i128.pow has wrapped.
RescaledIsTruncated ==
    held # NoValue /\ ~ held.wild =>
        LET m == held.number.mantissa
            original == Magnitude(held.made.mantissa) * TenTo[held.number.scale]
            rescaled == Magnitude(m) * TenTo[held.made.scale]
        IN  /\ m # 0 => (m < 0) = (held.made.mantissa < 0)
            /\ rescaled <= original
            /\ original - rescaled < TenTo[held.made.scale + held.number.scale - held.coarsest]

\* A value that has as few places again as it was made with is still a Decimal: it
\* can be compared, and comes out closer to zero or equal, and it is true only if
\* the original is.
RescaledIsDecimal ==
    held # NoValue /\ ~ held.wild /\ held.number.scale <= held.made.scale =>
        LET order == Cmp(held.number, held.made) IN
        /\ IsDecimal(held.number) /\ order # "panic"
        /\ order = "less" => held.made.mantissa > 0
        /\ order = "greater" => held.made.mantissa < 0
        /\ ToBool(held.number) => ToBool(held.made)

\* "Calculates the lower bound median", "takes the rounded down median": of an
\* even number of values it is the lower of the two in the middle, so that fewer
\* than half of the values are below the one returned.
LowerMedian ==
    \A age \in Ages :
        LET r == get_value(age, 1, FALSE)
            Below(v) == v < r.value
        IN  r.error = "none" => 2 * Count(age, Below) < Cardinality(Recent(age))
=============================================================================
