---------------------------- MODULE TrialHistory ----------------------------
(***************************************************************************)
(* UpdateRecord with a history variable: the trial ids that any record so  *)
(* far gave to an upload.  The record itself forgets them, for the entry   *)
(* of a slot is emptied before the next upload; a confirmation request or  *)
(* a deadline intent may have been made long before.                       *)
(***************************************************************************)
EXTENDS UpdateRecord

VARIABLE used   \* trial ids of all uploads accepted so far

HistoryInit == Init /\ used = {}

(* A slot without an image gets one: only an accepted upload does that.    *)
Given(s) == rec.images[s].image = NoImage /\ rec'.images[s].image # NoImage

HistoryNext ==
  /\ Next
  /\ used' = used \cup {rec'.images[s].trial_id : s \in {t \in Slot : Given(t)}}

HistorySpec == HistoryInit /\ [][HistoryNext]_<<rec, used>>

-----------------------------------------------------------------------------
(* Properties                                                              *)

TrialIdStep ==
  \A s \in Slot :
    LET old == rec.images[s]
        new == rec'.images[s] IN
    /\ Given(s) => new.trial_id \notin used \cup {0}
    /\ old.image # NoImage /\ new.image # NoImage =>
         new.image = old.image /\ new.trial_id = old.trial_id

(* A trial id names one upload for good: an upload that is accepted gets   *)
(* one that no upload ever had, in either slot, and a resident image keeps *)
(* its own.  So a request or an intent made for an earlier upload, even of *)
(* the same image in the same slot, never fits a later one.                *)
TrialIdsUnique == [][TrialIdStep]_<<rec, used>>
=============================================================================
