------------------------- MODULE DirectoryEnumeration -------------------------
(***************************************************************************)
(* QUERY_DIRECTORY on one directory handle (smb2_dir.go): the enumeration  *)
(* state the server keeps per handle, the listing the handle's File reads  *)
(* once and pages out (File.ReadDir of file.go), and a share whose         *)
(* directory others change meanwhile.  The requests on the handle come     *)
(* from one connection, one at a time.                                     *)
(*                                                                         *)
(* A name is a number, in the order in which the backend sorts names.  A   *)
(* search pattern is the set of the names it matches; "*" is every name.   *)
(* An entry takes Width units of the reply's buffer.                       *)
(***************************************************************************)
EXTENDS MockSMB

CONSTANTS
    Names,        \* names a directory entry can have, integers
    Width,        \* the room an entry of that name takes in a reply
    Scenarios     \* what the client may ask: see Scenario

(* A scenario: the entries at first, the patterns, flags and buffer sizes  *)
(* to choose from, how many requests are made, how often others add or     *)
(* remove a name and how often reading the directory may fail.  The flag   *)
(* CLASS stands for an information class formatDirEntry does not know.     *)
Scenario == [names : SUBSET Names, patterns : SUBSET SUBSET Names,
             flags : SUBSET SUBSET {"RESTART_SCANS", "SINGLE", "INDEX", "CLASS"},
             rooms : SUBSET Nat, budget : Nat, changes : Nat, faults : Nat]

VARIABLES
    scenario,     \* the scenario of this behaviour
    entries,      \* names in the directory, on the share
    listing,      \* File.dirEntry and File.dirPos
    dirState,     \* dirStates[handle]
    queries,      \* requests still to come
    changes,      \* changes by others still to come
    failures,     \* failures to read the directory still to come
    dirPanicked,  \* the enumeration was indexed past its end
    shown,        \* history: the FileIndex values replies have carried
    given,        \* history: names the replies have carried, in order
    disturbed,    \* history: the client has restarted or repositioned
    answer        \* history: the last status

dirVars == <<scenario, entries, listing, dirState, queries, changes, failures,
             dirPanicked, shown, given, disturbed, answer>>

Unread == [read |-> FALSE, names |-> << >>, pos |-> 0]
NoState == [kept |-> FALSE, entries |-> << >>, position |-> 0,
            pattern |-> Names, exhausted |-> FALSE]
Listed(names) == SetToSortSeq(names, <)

(* File.ReadDir(-1): the whole directory is read on the first call; later  *)
(* calls get what is left of that listing.                                 *)
ReadListing == IF listing.read THEN listing ELSE [read |-> TRUE, names |-> Listed(entries), pos |-> 0]
ReadRest(l) == SubSeq(l.names, l.pos + 1, Len(l.names))
ReadAll(l) == [l EXCEPT !.pos = Len(l.names)]

(* filterEntries and matchPattern.                                         *)
matchPattern(name, pattern) == name \in pattern
filterEntries(list, pattern) ==
    SelectSeq(list, LAMBDA name : matchPattern(name, pattern))

(* The enumeration state after the request's flags and pattern: a restart  *)
(* and a change of pattern drop the entries; an index moves the position.  *)
Resets(flags, pattern) == "RESTART_SCANS" \in flags \/ dirState.pattern # pattern
Prepared(flags, pattern, index) ==
    LET start == IF dirState.kept THEN dirState
                 ELSE [NoState EXCEPT !.pattern = pattern]
        reset == IF "RESTART_SCANS" \in flags \/ start.pattern # pattern
                 THEN [start EXCEPT !.position = 0, !.exhausted = FALSE,
                                    !.pattern = pattern, !.entries = << >>]
                 ELSE start
    IN  IF "INDEX" \in flags
        THEN [reset EXCEPT !.position = index, !.exhausted = FALSE]
        ELSE reset

(* How many of the matching entries go into a reply with this much room.   *)
Used(list, k) == FoldFunction(LAMBDA name, sum : sum + Width[name], 0, SubSeq(list, 1, k))
Fitting(list, room, flags) ==
    LET most == IF "SINGLE" \in flags THEN 1 ELSE Len(list)
    IN  CHOOSE k \in 0..most :
            /\ Used(list, k) <= room
            /\ k = most \/ Used(list, k + 1) > room

(* The position after a reply of k entries, and the FileIndex the i-th of  *)
(* them carries: position and entry count have both moved on by then.      *)
Advance_Once(position, k) == position + 1   \* slip: one step per reply
Advance(position, k) == position + k
FileIndex(position, i) == position + 2 * (i - 1)
Exhausted_Early(position, list) == position + 1 >= Len(list)   \* slip: off by one
Exhausted(position, list) == position >= Len(list)

(* The reply of handleQueryDirectory to a state whose entries are read.    *)
Reply(d, room, flags) ==
    LET matched == filterEntries(SubSeq(d.entries, d.position + 1, Len(d.entries)), d.pattern)
        k       == Fitting(matched, room, flags)
        moved   == [d EXCEPT !.kept = TRUE, !.position = Advance(@, k)]
    IN  IF matched = << >>
        THEN [status |-> "NO_MORE_FILES", state |-> [d EXCEPT !.kept = TRUE, !.exhausted = TRUE],
              names |-> << >>, indexes |-> {}]
        ELSE IF "CLASS" \in flags \/ k = 0
        THEN [status |-> IF "CLASS" \in flags THEN "NOT_SUPPORTED" ELSE "BUFFER_OVERFLOW", state |-> [d EXCEPT !.kept = TRUE],
              names |-> << >>, indexes |-> {}]
        ELSE [status |-> "SUCCESS",
              state |-> [moved EXCEPT !.exhausted = Exhausted(moved.position, d.entries)],
              names |-> SubSeq(matched, 1, k),
              indexes |-> {FileIndex(d.position, i) : i \in 1..k}]

(* What every request does to the history.                                 *)
Remember(flags, pattern) ==
    disturbed' = (\/ disturbed
                  \/ listing.read /\ Resets(flags, pattern)
                  \/ "INDEX" \in flags)

(***************************************************************************)
(* handleQueryDirectory.                                                   *)
(***************************************************************************)
(* The enumeration is over.                                                *)
QueryExhausted(flags, pattern, index) ==
    LET d == Prepared(flags, pattern, index)
    IN  /\ queries > 0 /\ d.exhausted
        /\ queries' = queries - 1
        /\ dirState' = [d EXCEPT !.kept = TRUE]
        /\ answer' = "NO_MORE_FILES"
        /\ Remember(flags, pattern)
        /\ UNCHANGED <<scenario, entries, listing, changes, failures, dirPanicked, shown, given>>

(* The directory cannot be read.  The state is not stored; one that was    *)
(* stored before has been reset all the same.                              *)
QueryFails(flags, pattern, index) ==
    LET d == Prepared(flags, pattern, index)
    IN  /\ queries > 0 /\ failures > 0 /\ ~d.exhausted /\ d.entries = << >> /\ ~listing.read
        /\ queries' = queries - 1 /\ failures' = failures - 1
        /\ dirState' = IF dirState.kept THEN d ELSE dirState
        /\ answer' = "ACCESS_DENIED"
        /\ Remember(flags, pattern)
        /\ UNCHANGED <<scenario, entries, listing, changes, dirPanicked, shown, given>>

(* Entries that were not read yet are read, from the start of the listing  *)
(* or from where an earlier read has left it, which is its end.            *)
QueryEntries(flags, pattern, index, room) ==
    LET p == Prepared(flags, pattern, index)
        l == ReadListing
        d == IF p.entries = << >> THEN [p EXCEPT !.entries = ReadRest(l), !.position = 0] ELSE p
        r == Reply(d, room, flags)
    IN  /\ queries > 0 /\ ~p.exhausted
        /\ queries' = queries - 1
        /\ listing' = IF p.entries = << >> THEN ReadAll(l) ELSE listing
        /\ \/ /\ d.position <= Len(d.entries)
              /\ dirState' = r.state
              /\ answer' = r.status
              /\ shown' = shown \cup r.indexes
              /\ given' = given \o r.names
              /\ UNCHANGED dirPanicked
           \/ /\ d.position > Len(d.entries)
              /\ dirPanicked' = TRUE
              /\ UNCHANGED <<dirState, answer, shown, given>>
        /\ Remember(flags, pattern)
        /\ UNCHANGED <<scenario, entries, changes, failures>>

(* Somebody else adds or removes a name.                                   *)
ChangeDirectory(n) ==
    /\ changes > 0
    /\ changes' = changes - 1
    /\ entries' = IF n \in entries THEN entries \ {n} ELSE entries \cup {n}
    /\ UNCHANGED <<scenario, listing, dirState, queries, failures, dirPanicked, shown, given,
                   disturbed, answer>>

DirInit ==
    /\ scenario \in Scenarios
    /\ entries = scenario.names
    /\ listing = Unread /\ dirState = NoState
    /\ queries = scenario.budget /\ changes = scenario.changes /\ failures = scenario.faults
    /\ dirPanicked = FALSE
    /\ shown = {} /\ given = << >> /\ disturbed = FALSE /\ answer = "none"

DirNext ==
    /\ ~dirPanicked
    /\ \/ \E flags \in scenario.flags, pattern \in scenario.patterns :
             \E index \in (IF "INDEX" \in flags THEN shown ELSE {0}) :
                \/ QueryExhausted(flags, pattern, index)
                \/ QueryFails(flags, pattern, index)
                \/ \E room \in scenario.rooms : QueryEntries(flags, pattern, index, room)
       \/ \E n \in Names : ChangeDirectory(n)

(***************************************************************************)
(* Properties.                                                             *)
(***************************************************************************)
(* A client that goes through a directory with "*", by requests of any     *)
(* buffer size, single or not, with failures and changes of the directory  *)
(* between them, is given a prefix of one listing: no entry twice, none    *)
(* out of order, none that was not there when the listing was read, and    *)
(* the enumeration never runs past its end.                                *)
ListingPrefix ==
    ~disturbed =>
        /\ ~dirPanicked
        /\ dirState.pattern = Names => IsPrefix(given, listing.names)

(* When the client is told NO_MORE_FILES it has been given every entry of  *)
(* the listing that its pattern matches, for every pattern (smb2_dir.go:   *)
(* the position counts entries given but indexes the unfiltered listing,   *)
(* so a filtering pattern may repeat an entry; it may not lose one).       *)
NothingSkipped ==
    ~disturbed /\ answer = "NO_MORE_FILES" =>
        \A name \in ToSet(listing.names) :
            matchPattern(name, dirState.pattern) => name \in ToSet(given)
=============================================================================
