------------------------------- MODULE RoomApp -------------------------------
(***************************************************************************)
(* The pages of the room application.  The page of a room shares with the  *)
(* others only the rooms stored in the vault, so that it is explored on    *)
(* its own, from the moment it is mounted.                                 *)
(***************************************************************************)
EXTENDS Naturals

CONSTANTS
    Permits, Invites, Malformed, SeatsOf, Slots, MaxActs, MaxFaults,  \* home and join page
    Rooms, MaxAttempts, MaxClicks, MaxApplied, MaxJumps, FrameFaults,  \* page of a room
    None

VARIABLES
    mounted,        \* what is explored
    \* the state of the pages, by the names of their modules
    vault, used, session, page, home, join, call, acts, faults, excused, overwritten, left,
    value, roomId, loads, room, bundle, loading, nonce, subscribed, handlers, frame, pending,
    toPage, toFrame, clicks, applied, jumps, lowered, unseen, jumped

entry == <<vault, used, session, page, home, join, call, acts, excused, overwritten, left>>
stage == <<value, roomId, loads, room, bundle, loading, nonce, subscribed, handlers, frame, pending,
           toPage, toFrame, clicks, applied, jumps, lowered, unseen, jumped>>
vars == <<mounted, entry, stage, faults>>

Entry == INSTANCE RoomEntry
Frame == INSTANCE RoomFrame WITH MaxFaults <- FrameFaults

ASSUME SeatsAreNatural == SeatsOf \in [Permits -> Nat]
ASSUME PermitsAreNoInvites == Permits \cap Invites = {}
ASSUME BoundsAreNatural ==
    /\ {MaxActs, MaxFaults, MaxClicks, MaxApplied, MaxJumps, FrameFaults} \subseteq Nat
    /\ MaxAttempts \in Nat \ {0}
ASSUME NoneIsNoValue ==
    /\ None \notin Permits \cup Invites \cup Rooms \cup Nat
    /\ None \notin Entry!Home \cup Entry!Join \cup Entry!Call
    /\ None \notin Frame!Listener \cup Frame!Script

NoEntry ==
    /\ vault = None /\ used = None /\ session = None /\ page = None /\ home = None /\ join = None
    /\ call = None /\ acts = None /\ excused = None /\ overwritten = None /\ left = None
NoFrame ==
    /\ value = None /\ roomId = None /\ loads = None /\ room = None /\ bundle = None
    /\ loading = None /\ nonce = None /\ subscribed = None /\ handlers = None /\ frame = None
    /\ pending = None /\ toPage = None /\ toFrame = None /\ clicks = None /\ applied = None
    /\ jumps = None /\ lowered = None /\ unseen = None /\ jumped = None

Init ==
    \/ mounted = "entry" /\ Entry!Init /\ NoFrame
    \/ mounted = "frame" /\ Frame!Init /\ NoEntry

Next ==
    /\ UNCHANGED mounted
    /\ \/ mounted = "entry" /\ Entry!Next /\ UNCHANGED stage
       \/ mounted = "frame" /\ Frame!Next /\ UNCHANGED entry

Spec == Init /\ [][Next]_vars

-----------------------------------------------------------------------------
(* Properties: each is stated, and its exceptions explained, in the modules *)

\* The vault, the pages, their requests and their messages are well formed.
TypeOK ==
    /\ mounted = "entry" => Entry!TypeOK
    /\ mounted = "frame" => Frame!TypeOK

\* The home page lists the rooms of the device and offers the permit the session keeps,
\* a permit that has bought a room is forgotten wherever the creation ended, and the
\* buttons of the pages come back.
EntryMatches ==
    mounted = "entry" =>
        Entry!ListsVault /\ Entry!OffersItsPermit /\ Entry!SpentIsForgotten /\ Entry!ButtonsComeBack

\* The frame shows the counter of the room, whatever order its requests, their answers
\* and the notifications come in, and whichever it gives up.
FrameShowsRoom == mounted = "frame" => Frame!ShowsTheRoom /\ Frame!StatusSettles
=============================================================================
