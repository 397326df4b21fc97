---------------------------- MODULE InspectVerify ----------------------------
(***************************************************************************)
(* l2tca.cli.inspect._Verifier (l2tca inspect --verify) over the capture   *)
(* that DerivePipeline replays.  Each command reads the file on its own;   *)
(* here they take each frame together, so that what they make of it can be *)
(* compared.                                                               *)
(***************************************************************************)
EXTENDS DerivePipeline

VARIABLES
    vbook,      \* self.book, an OrderBook without a tracker
    vready,     \* self.ready
    disagreed,  \* self.agreed < self.checked
    vraised     \* a ValueError ended the command

verifierVars == <<vbook, vready, disagreed, vraised>>
inspectVars == <<vars, verifierVars>>

InspectInit ==
    /\ Init
    /\ vbook = EmptyBook /\ vready = FALSE
    /\ disagreed = FALSE /\ vraised = FALSE

(***************************************************************************)
(* feed.                                                                   *)
(***************************************************************************)
Over == vraised /\ UNCHANGED verifierVars

FeedSnapshot(f) ==
    /\ ~vraised /\ f.type = "snapshot"
    /\ vbook' = Loaded(f.levels)
    /\ vready' = TRUE
    /\ UNCHANGED <<disagreed, vraised>>

FeedEarly(f) ==
    /\ ~vraised /\ f.type = "update" /\ ~vready
    /\ UNCHANGED verifierVars

FeedRaises(f) ==
    /\ ~vraised /\ f.type = "update" /\ vready
    /\ ~UpdateFits(vbook, f.levels)
    /\ vraised' = TRUE
    /\ UNCHANGED <<vbook, vready, disagreed>>

(* Mutants of FeedUpdate: a frame that cannot be checked is left out; the  *)
(* count of mismatches is the verdict on the last frame.                   *)
FeedOnlyChecked(f) ==
    /\ ~vraised /\ f.type = "update" /\ vready
    /\ UpdateFits(vbook, f.levels)
    /\ vbook' = IF f.sum = NoSum THEN vbook ELSE Applied(vbook, f.levels)
    /\ disagreed' = (disagreed \/ (f.sum # NoSum /\ BookChecksum(vbook') # f.sum))
    /\ UNCHANGED <<vready, vraised>>

FeedLastVerdict(f) ==
    /\ ~vraised /\ f.type = "update" /\ vready
    /\ UpdateFits(vbook, f.levels)
    /\ vbook' = Applied(vbook, f.levels)
    /\ disagreed' = (f.sum # NoSum /\ BookChecksum(vbook') # f.sum)
    /\ UNCHANGED <<vready, vraised>>

(* Applied first, checked then; a checksum of 0 is checked like any other. *)
FeedUpdate(f) ==
    /\ ~vraised /\ f.type = "update" /\ vready
    /\ UpdateFits(vbook, f.levels)
    /\ vbook' = Applied(vbook, f.levels)
    /\ disagreed' = (disagreed \/ (f.sum # NoSum /\ BookChecksum(vbook') # f.sum))
    /\ UNCHANGED <<vready, vraised>>

Feed(f) == Over \/ FeedSnapshot(f) \/ FeedEarly(f) \/ FeedRaises(f) \/ FeedUpdate(f)

(* The derivation has ended with an exception; inspect reads on.           *)
ReplayIsOver ==
    /\ raised /\ wire # << >>
    /\ wire' = << >>
    /\ UNCHANGED <<trackerVars, venue, sent, ready, row, raised, gap, bare, denied>>

InspectNext ==
    \/ (VenueSnapshot \/ VenueUpdate \/ LoseFrame) /\ UNCHANGED verifierVars
    \/ (Replay \/ ReplayIsOver) /\ Feed(Head1)

InspectSpec == InspectInit /\ [][InspectNext]_inspectVars

-----------------------------------------------------------------------------
(* A verifier that has a book and has not raised keeps the venue's window  *)
(* and never raises while nothing was lost since the last snapshot, frames *)
(* without a checksum included: they are applied before the checksum is    *)
(* looked at (inspect.py:43-47), which is what the derivation does not do. *)
VerifierFollowsVenue ==
    [][(~vraised /\ vready' /\ gap' = 0 /\ wire' = << >>)
            => vbook' = Window(venue', Depth) /\ ~vraised']_inspectVars

(* The two judge alike where both can: a row is false only in a capture    *)
(* that inspect would not call verified, as long as every frame since the  *)
(* last snapshot carried a checksum (inspect.py:48-49, sequence.py:200).   *)
FalseRowsAreReported ==
    (row.ok = "false" /\ bare = 0) => disagreed \/ vraised
=============================================================================
