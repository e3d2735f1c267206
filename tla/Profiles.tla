------------------------------ MODULE Profiles ------------------------------
(***************************************************************************)
(* One user's profile and finished guided tours: UpdateProfile and         *)
(* UpdateCompletedTours of internal/service/user.go, served by             *)
(* internal/handler/v1/user.go over internal/dal/user.go.                  *)
(*                                                                         *)
(* A tour update reads the row, merges and writes; a profile update writes *)
(* and reads back.  Any number of either overlap on any instances.  A      *)
(* request that fails before it writes changes nothing and is no step.     *)
(***************************************************************************)
EXTENDS Integers, FiniteSets

CONSTANTS Editors,        \* requests in flight
          Tours,          \* the ids of guided tours there have ever been
          ValidTours,     \* those the configuration names now
          TourLimit,      \* maxCompletedTours
          MaxEdits,       \* bound: profile updates
          RowFails        \* whether statements on the row may fail

ASSUME ProfilesAssumption ==
    ValidTours \subseteq Tours /\ IsFiniteSet(Tours) /\ TourLimit \in Nat

VARIABLES
    tours,      \* completed_tours of the row
    profile,    \* username, bio and avatar, by the number of their edit
    editor,     \* what a request has read or written
    (* history, for the properties *)
    kept        \* tours acknowledged while no other tour update was about

profilesVars == <<tours, profile, editor, kept>>

NoEdit == [at |-> "idle"]

ProfilesInit ==
    /\ tours \in SUBSET Tours /\ Cardinality(tours) <= TourLimit
    /\ profile = 0
    /\ editor = [e \in Editors |-> NoEdit]
    /\ kept = tours

Updating(e) == editor[e].at = "merge"

Alone(e) == \A f \in Editors \ {e} : ~Updating(f)

-----------------------------------------------------------------------------
(* Actions *)

\* UpdateCompletedTours: every id must be configured; then FindByID.
StartTours(e) ==
    /\ editor[e] = NoEdit
    /\ \E new \in SUBSET ValidTours :
        /\ Cardinality(tours \cup new) <= TourLimit
        /\ editor' = [editor EXCEPT ![e] =
                        [at |-> "merge", seen |-> tours, new |-> new, row |-> profile]]
    /\ UNCHANGED <<tours, profile, kept>>

\* What Uniq leaves of the tours read and the new ones.
Merged(e) == editor[e].seen \cup editor[e].new

\* (Mutation: the new tours take the place of the old.)
MergedNew(e) == editor[e].new

\* (Mutation: the row that was read is saved as a whole.)
WriteRow(e) ==
    /\ Updating(e)
    /\ tours' = Merged(e) /\ profile' = editor[e].row
    /\ kept' = IF Alone(e) THEN kept \cup Merged(e) ELSE kept
    /\ editor' = [editor EXCEPT ![e] = NoEdit]

\* One column is written; an error may come before or after the commit.
WriteTours(e) ==
    /\ Updating(e)
    /\ \/ /\ tours' = Merged(e)
          /\ kept' = IF Alone(e) THEN kept \cup Merged(e) ELSE kept
       \/ RowFails /\ tours' \in {tours, Merged(e)} /\ UNCHANGED kept
    /\ editor' = [editor EXCEPT ![e] = NoEdit]
    /\ UNCHANGED profile

\* UpdateProfile: the three columns in one statement, then FindByID.
WriteProfile(e) ==
    /\ editor[e] = NoEdit /\ profile < MaxEdits
    /\ profile' = profile + 1
    /\ \/ editor' = [editor EXCEPT ![e] = [at |-> "readback", wrote |-> profile']]
       \/ RowFails /\ UNCHANGED editor
    /\ UNCHANGED <<tours, kept>>

\* The answer shows the row as it is now; or the read fails.
ReadBack(e) ==
    /\ editor[e].at = "readback"
    /\ editor' = [editor EXCEPT ![e] = NoEdit]
    /\ UNCHANGED <<tours, profile, kept>>

UpdateTour(e) == StartTours(e) \/ WriteTours(e)

UpdateProfileOf(e) == WriteProfile(e) \/ ReadBack(e)

Edit(e) == UpdateTour(e) \/ UpdateProfileOf(e)

ProfilesNext == \E e \in Editors : Edit(e)

ProfilesSpec == ProfilesInit /\ [][ProfilesNext]_profilesVars

-----------------------------------------------------------------------------
(* Properties *)

ProfilesTypeOK ==
    /\ tours \in SUBSET Tours
    /\ profile \in Nat
    /\ editor \in [Editors -> {NoEdit}
                      \cup [at : {"merge"}, seen : SUBSET Tours, new : SUBSET ValidTours, row : Nat]
                      \cup [at : {"readback"}, wrote : Nat]]
    /\ kept \in SUBSET Tours

\* A tour acknowledged while no other tour update was in flight is never asked
\* of the user again, whatever requests come later, overlap or fail
\* (service/user.go 75-96).  Overlapping ones may overwrite each other.
ToursKept == kept \subseteq tours

\* The inductive form: a tour update in flight has read what it must keep.
ToursKeptInv ==
    ToursKept /\ \A e \in Editors : Updating(e) => kept \subseteq editor[e].seen

\* A profile update, once its statement is done, is not undone by the row that
\* a slower request has read before: what is read back is no older than what was
\* written (service/user.go 62-73, dal/user.go 79-95).
ProfileStands ==
    \A e \in Editors : editor[e].at = "readback" => editor[e].wrote <= profile

\* A row that tour and profile updates share keeps the work of both.
ProfileSafe == ToursKeptInv /\ ProfileStands

=============================================================================
