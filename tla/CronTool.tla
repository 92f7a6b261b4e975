-------------------------------- MODULE CronTool --------------------------------
(***************************************************************************)
(* The cron workbench: parseCronExpression and createCronPreviewRequest of *)
(* src/apps/web/src/features/tools/developer-inspection-workbench.ts, and  *)
(* the search of src/apps/web/public/workers/cron-preview-worker.js that   *)
(* finds the next minutes of a schedule.  PreviewWorker has the life of    *)
(* that worker.  A field is a list of parts, a part "*", a value or a      *)
(* range, with or without a step.                                          *)
(***************************************************************************)
EXTENDS ToolWork, Integers, Sequences, FiniteSets, SequencesExt

CONSTANTS
    CronFields,      \* CRON_FIELDS: of each field minimum, maximum and names
    CronSources,     \* what is typed into one field: a sequence of parts
    CronExpressions, \* what is typed into all five: a source for each field
    Calendar,        \* the minutes to come, in order: the value of each field in each one
    MaxOccurrences,  \* maximumOccurrences
    MaxListParts     \* MAXIMUM_CRON_LIST_PARTS

FieldNames == {"minute", "hour", "dayOfMonth", "month", "dayOfWeek"}

IsList(list) == list \in Seq({list[i] : i \in DOMAIN list})

\* The week has both Sundays.  The horizon of a preview is a day at least.
ASSUME CronAssumption ==
    /\ DOMAIN CronFields = FieldNames
    /\ \A f \in FieldNames :
         /\ {CronFields[f].minimum, CronFields[f].maximum} \subseteq Nat
         /\ CronFields[f].minimum <= CronFields[f].maximum
    /\ CronFields["dayOfWeek"].minimum = 0 /\ CronFields["dayOfWeek"].maximum = 7
    /\ \A source \in CronSources : IsList(source)
    /\ \A typed \in CronExpressions, f \in FieldNames : IsList(typed[f])
    /\ Len(Calendar) \in Nat /\ Len(Calendar) > 3
    /\ {MaxOccurrences, MaxListParts} \subseteq Nat \ {0}

Nothing == <<>>

\* A part: "*", a value, or a range, as [from, to, step]; what it has not is Nothing.
CronPart(from, to, step) == [from |-> from, to |-> to, step |-> step]
Star   == <<"*">>
Value(v)  == <<"value", v>>
Named(name) == <<"name", name>>

RefusedCron == [refused |-> TRUE]

-------------------------------------------------------------------------------
\* normalizeSunday
IsWeek(f) == f = "dayOfWeek"

Sunday(f, v) == IF IsWeek(f) /\ v = 7 THEN 0 ELSE v

\* resolveCronValue: a value, or one out of range.
OutOfRange == -1

ResolveCronValue(token, f) ==
    LET v == IF token[1] = "value" THEN token[2]
             ELSE IF token[2] \in DOMAIN CronFields[f].names THEN CronFields[f].names[token[2]]
             ELSE OutOfRange
    IN IF v \in CronFields[f].minimum .. CronFields[f].maximum THEN v ELSE OutOfRange

Cardinal(f) == IF IsWeek(f) THEN 7 ELSE CronFields[f].maximum - CronFields[f].minimum + 1

\* Mutant: a step counts from the minimum of the field.
StridesFromMinimum(f, start, end, step) ==
    {Sunday(f, v) : v \in {v \in start .. end : (v - CronFields[f].minimum) % step = 0}}

\* The values of rangeValues.
Strides(f, start, end, step) ==
    {Sunday(f, v) : v \in {v \in start .. end : (v - start) % step = 0}}

\* rangeValues and parseCronPart: the values of a part, none if it is refused.
ParseCronPart(part, f) ==
    LET step == IF part.step = Nothing THEN 1 ELSE part.step[1]
        wild == part.from = Star
        start == IF wild THEN CronFields[f].minimum ELSE ResolveCronValue(part.from, f)
        end == IF wild THEN CronFields[f].maximum ELSE ResolveCronValue(part.to, f)
    IN IF part.to = Nothing /\ ~wild
       THEN IF part.step # Nothing \/ start = OutOfRange THEN {} ELSE {Sunday(f, start)}
       ELSE IF OutOfRange \in {start, end} \/ start > end \/ step \notin 1 .. Cardinal(f)
       THEN {}
       ELSE Strides(f, start, end, step)

\* fullRange
FullRange(f) == {Sunday(f, v) : v \in CronFields[f].minimum .. CronFields[f].maximum}

\* A lone 7 is written 0; names are written in capitals.
NormalizedPart(part, f) ==
    IF IsWeek(f) /\ part = CronPart(Value(7), Nothing, Nothing)
    THEN CronPart(Value(0), Nothing, Nothing) ELSE part

\* parseCronField
ParseCronField(source, f) ==
    LET values == {ParseCronPart(source[i], f) : i \in DOMAIN source}
    IN IF source = <<>> \/ {} \in values \/ Len(source) > MaxListParts THEN RefusedCron
       ELSE [refused |-> FALSE,
             values |-> UNION values,
             unrestricted |-> UNION values = FullRange(f),
             normalized |-> [i \in DOMAIN source |-> NormalizedPart(source[i], f)]]

\* parseCronExpression
ParseCronExpression(typed) ==
    LET fields == [f \in FieldNames |-> ParseCronField(typed[f], f)]
    IN IF RefusedCron \in {fields[f] : f \in FieldNames} THEN RefusedCron
       ELSE [refused |-> FALSE, fields |-> fields]

\* createCronPreviewRequest
CreateCronPreviewRequest(fields, start, horizon) ==
    [from |-> start, horizon |-> horizon,
     values |-> [f \in FieldNames |-> fields[f].values],
     dayOfMonthUnrestricted |-> fields["dayOfMonth"].unrestricted,
     dayOfWeekUnrestricted |-> fields["dayOfWeek"].unrestricted]

-------------------------------------------------------------------------------
(***************************************************************************)
(* The worker.                                                             *)
(***************************************************************************)
\* validatedRequest: every value is in the range of its field, Sunday being 0.
ValidRequest(request) ==
    /\ request.horizon >= 1
    /\ \A f \in FieldNames :
         LET maximum == IF IsWeek(f) THEN 6 ELSE CronFields[f].maximum
         IN /\ request.values[f] # {}
            /\ request.values[f] \subseteq CronFields[f].minimum .. maximum

\* Mutant: a day has to be one of the month and one of the week.
MatchesBothDays(minute, request) ==
    \A f \in FieldNames : minute[f] \in request.values[f]

MatchesSchedule(minute, request) ==
    LET of(f) == minute[f] \in request.values[f]
        everyDay == request.dayOfMonthUnrestricted
        everyWeekday == request.dayOfWeekUnrestricted
    IN /\ of("minute") /\ of("hour") /\ of("month")
       /\ \/ everyDay /\ everyWeekday
          \/ ~everyWeekday /\ of("dayOfWeek")
          \/ ~everyDay /\ of("dayOfMonth")

\* The loop of onmessage: minutes after the one it is, until there are enough.
SearchStep(s, request) ==
    IF s.checked >= request.horizon \/ Len(s.found) >= MaxOccurrences THEN s
    ELSE [found |-> IF MatchesSchedule(Calendar[s.cursor], request)
                    THEN Append(s.found, s.cursor) ELSE s.found,
          cursor |-> s.cursor + 1, checked |-> s.checked + 1]

\* What has been found and looked at after each turn.
Search(request) ==
    LET search[n \in 0 .. request.horizon] ==
          IF n = 0 THEN [found |-> <<>>, cursor |-> request.from + 1, checked |-> 0]
          ELSE SearchStep(search[n - 1], request)
    IN search

Preview(request) ==
    LET s == Search(request)[request.horizon]
    IN [occurrences |-> s.found, checked |-> s.checked,
        truncated |-> Len(s.found) < MaxOccurrences]

-------------------------------------------------------------------------------
\* CronExpressionWorkbenchTool, for one field.
SubmitCronField ==
    \E f \in FieldNames, source \in CronSources :
      work' = [tool |-> "cron field", field |-> f, source |-> source,
               made |-> ParseCronField(source, f)]

\* CronExpressionWorkbenchTool, with the preview of an expression it has read.
SubmitCron ==
    \E typed \in CronExpressions, start \in 0 .. 2, horizon \in {1, Len(Calendar) - 3} :
      LET read == ParseCronExpression(typed)
          request == CreateCronPreviewRequest(read.fields, start, horizon)
      IN work' = IF read.refused THEN [tool |-> "cron", typed |-> typed, refused |-> TRUE]
                 ELSE [tool |-> "cron", typed |-> typed, refused |-> FALSE,
                       request |-> request, accepted |-> ValidRequest(request),
                       made |-> Preview(request)]

\* What cron takes a part to say.  Both 0 and 7 are Sunday.
SaysCron(part, f, v) ==
    \E w \in CronFields[f].minimum .. CronFields[f].maximum :
      /\ Sunday(f, w) = v
      /\ \/ part.from = Star
         \/ part.to = Nothing /\ w = ResolveCronValue(part.from, f)
         \/ /\ part.from # Star /\ part.to # Nothing
            /\ w \in ResolveCronValue(part.from, f) .. ResolveCronValue(part.to, f)
      /\ LET start == IF part.from = Star THEN CronFields[f].minimum
                      ELSE ResolveCronValue(part.from, f)
         IN \E k \in 0 .. w : part.step = Nothing \/ w = start + k * part.step[1]

(***************************************************************************)
(* A field that is read stands for the values cron gives it, every part by *)
(* itself, names, steps and both Sundays included; what the tool writes    *)
(* instead of it stands for the same values; and it is called unrestricted *)
(* just when no value is left out, however it is written.                  *)
(* parseCronField.                                                         *)
(***************************************************************************)
CronFieldMeansIt ==
    work.tool = "cron field" /\ ~work.made.refused =>
      LET f == work.field
          again == ParseCronField(work.made.normalized, f)
      IN /\ work.made.values =
              {v \in FullRange(f) : \E i \in DOMAIN work.source : SaysCron(work.source[i], f, v)}
         /\ again = [work.made EXCEPT !.normalized = again.normalized]
         /\ again.normalized = work.made.normalized
         /\ work.made.unrestricted <=>
              \A w \in CronFields[f].minimum .. CronFields[f].maximum :
                Sunday(f, w) \in work.made.values

(***************************************************************************)
(* The preview is right: the worker takes every request the page makes,    *)
(* and lists the first minutes, after the one it is, that the schedule     *)
(* says, none left out up to where it stopped; where both days are         *)
(* restricted, one of them is enough, as cron has it, and an unrestricted  *)
(* day asks nothing.  It stops for no other reason than that it has found  *)
(* enough or come to its horizon.  createCronPreviewRequest, onmessage of  *)
(* cron-preview-worker.js.                                                 *)
(***************************************************************************)
PreviewIsRight ==
    work.tool = "cron" /\ ~work.refused =>
      LET asked == work.request
          says(n, f) ==
            \E i \in DOMAIN work.typed[f] : SaysCron(work.typed[f][i], f, Calendar[n][f])
          all(f) == \A v \in FullRange(f) :
                      \E i \in DOMAIN work.typed[f] : SaysCron(work.typed[f][i], f, v)
          due(n) == /\ \A f \in {"minute", "hour", "month"} : says(n, f)
                    /\ \/ \E f \in {"dayOfMonth", "dayOfWeek"} : says(n, f) /\ ~all(f)
                       \/ all("dayOfMonth") /\ all("dayOfWeek")
          checked == asked.from + 1 .. asked.from + work.made.checked
          found == ToSet(work.made.occurrences)
      IN /\ work.accepted
         /\ found = {n \in checked : due(n)}
         /\ \A i, j \in DOMAIN work.made.occurrences :
              i < j => work.made.occurrences[i] < work.made.occurrences[j]
         /\ work.made.checked = asked.horizon \/ Cardinality(found) = MaxOccurrences
         /\ Cardinality(found) <= MaxOccurrences

CronIsRight == CronFieldMeansIt /\ PreviewIsRight
=================================================================================
