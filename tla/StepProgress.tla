---------------------------- MODULE StepProgress ----------------------------
(***************************************************************************)
(* What the progress bar is told (lib/term_ui/progress_bar.py):            *)
(* ASCTProgressTrackerContainer wraps the loop over the recipes, at depth  *)
(* 0, and the loop over the steps of a recipe, at depth 1, in iterate().   *)
(* The container is a record; each operator gives the record after a call. *)
(*                                                                         *)
(* `trackers` holds the bars it forwards to, the animated one ("async")    *)
(* and the one that writes log lines ("sync"); with none it is inactive.   *)
(* The threads of the animated bar are in ProgressTracker.                 *)
(***************************************************************************)
EXTENDS Integers, FiniteSets

MaxDepth == 2
Depth == 0..(MaxDepth - 1)

\* IterationState; a block that was not entered has no steps behind it.
IterationState(sized, count) ==
    [open |-> TRUE, sized |-> sized, idx |-> 0, count |-> IF sized THEN count ELSE 0]

NoBlock == [open |-> FALSE, sized |-> FALSE, idx |-> 0, count |-> 0]

\* asct writes a log file unless told to be quiet; a bar for the terminal that is not
\* animated writes through the log, and needs no second one for the file.
Trackers(quiet, noBar, logFile) ==
    LET file == logFile \/ ~quiet
    IN (IF ~quiet /\ ~noBar THEN {"async"} ELSE {})
       \cup (IF (~quiet /\ noBar) \/ file THEN {"sync"} ELSE {})

\* initialize(), of a new process.  The averages, one for each depth, are kept as a sum
\* and a count.
Container(trackers) ==
    [trackers |-> trackers, depth |-> -1, stack |-> [d \in Depth |-> NoBlock],
     global |-> 0, avg |-> [d \in Depth |-> [sum |-> 0, count |-> 0]],
     shown |-> [t \in trackers |-> [d \in Depth |-> [idx |-> 0, max |-> 0]]]]

Active(bar) == bar.trackers # {}

\* A list of two is indexed: a third block cannot be entered.
CanEnter(bar) == bar.depth + 1 \in Depth

OnEnterIterationBlock(bar, sized, count) ==
    [bar EXCEPT !.depth = @ + 1, !.stack[bar.depth + 1] = IterationState(sized, count)]

\* ASCTAverager.Add.
Add(average, value) == [sum |-> average.sum + value, count |-> average.count + 1]

\* Fault: the depth stays.
OnExitKeepingDepth(bar) == [bar EXCEPT !.stack[bar.depth] = NoBlock]

OnExitIterationBlock(bar) ==
    [bar EXCEPT !.avg[bar.depth] = Add(@, bar.stack[bar.depth].idx),
                !.stack[bar.depth] = NoBlock,
                !.depth = @ - 1]

----------------------------------------------------------------------------
(* What the components show *)

\* update_status of the given trackers: the components of this depth are told.
UpdateStatus(bar, trackers, d, idx, max) ==
    [bar EXCEPT !.shown = [t \in DOMAIN @ |->
        IF t \in trackers THEN [@[t] EXCEPT ![d] = [idx |-> idx, max |-> max]] ELSE @[t]]]

\* ASCTProgressTrackerStep: the step being executed, counted from one.
StepShown(s) == IF s.idx + 1 < s.max THEN s.idx + 1 ELSE s.max

\* ASCTProgressTrackerStepPercentage, in tenths of a percent.
PercentageShown(s) ==
    IF s.max = 0 THEN 0
    ELSE IF s.idx >= s.max THEN 1000 ELSE (1000 * s.idx) \div s.max

BarLength == 16

\* Fault: a part of a character counts as a full and as a half one.
FilledAmountsRoundedUp(idx, max) ==
    [full |-> (BarLength * idx + max - 1) \div max, partial |-> 1]

\* _get_bar_filled_amounts: a part of a character below 0.15 is not shown, from 0.85 on
\* it is a full character, else a half one.
GetBarFilledAmounts(idx, max) ==
    LET full == (BarLength * idx) \div max
        part == 100 * ((BarLength * idx) % max)
    IN CASE part < 15 * max  -> [full |-> full, partial |-> 0]
         [] part >= 85 * max -> [full |-> full + 1, partial |-> 0]
         [] OTHER            -> [full |-> full, partial |-> 1]

\* The empty part of the bar; nothing is drawn before the number of steps is known.
BarEmpty(s) ==
    IF s.max = 0 THEN BarLength
    ELSE LET amounts == GetBarFilledAmounts(s.idx, s.max)
         IN BarLength - (amounts.full + amounts.partial)

----------------------------------------------------------------------------
(* iterate() *)

\* Fault: the step is counted before it is shown.
AnnounceNext(bar, d) ==
    LET b == bar.stack[d]
    IN [UpdateStatus(bar, bar.trackers, bar.depth, b.idx + 1, b.count) EXCEPT !.stack[d].idx = b.idx + 1]

\* The block of depth d hands out an item, which is shown first, at the depth the
\* container is at.  Without a length the count follows the index.
Announce(bar, d) ==
    LET b == bar.stack[d]
        count == IF b.sized THEN b.count ELSE b.idx + 1
    IN [UpdateStatus(bar, bar.trackers, bar.depth, b.idx, count)
            EXCEPT !.stack[d].count = count, !.stack[d].idx = b.idx + 1]

\* The loop asks for the next item: if it was a step of a recipe, one more is over.
Resume(bar) == IF bar.depth = MaxDepth - 1 THEN [bar EXCEPT !.global = @ + 1] ELSE bar

\* Only of a block with a length, and only to the animated bar.
ShowsCompletion(bar, d) == bar.stack[d].sized /\ "async" \in bar.trackers

\* The completion of the last step refers to a variable the loop assigns: without a
\* single step it has no value (NameError).
CompletionRaises(bar, d) == ShowsCompletion(bar, d) /\ bar.stack[d].idx = 0

\* Fault: the last step is not shown as complete.
CompleteUnseen(bar, d) == OnExitIterationBlock(bar)

Complete(bar, d) ==
    OnExitIterationBlock(
        IF ShowsCompletion(bar, d)
        THEN UpdateStatus(bar, {"async"}, bar.depth, bar.stack[d].idx, bar.stack[d].count) ELSE bar)

\* break_from_iteration: with no tracker there is nothing to index (TypeError).
BreakRaises(bar) == ~Active(bar)

\* Fault: the block of the recipe that failed stays open.
BreakFromIterationNot(bar) == bar

BreakFromIteration(bar) == OnExitIterationBlock(bar)
=============================================================================
