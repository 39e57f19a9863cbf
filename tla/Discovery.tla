------------------------------- MODULE Discovery -------------------------------
(***************************************************************************)
(* Finding the games: launchers' manifests and the user's locations are    *)
(* read one after the other, sightings of one folder are merged, and the   *)
(* result goes through a cache that keeps what is on a drive that is away. *)
(* Several processes scan; drives come, go and take each other's place;    *)
(* launchers install, update, move and remove games meanwhile.             *)
(***************************************************************************)
EXTENDS Naturals, FiniteSets, Sequences
Seqs == INSTANCE SequencesExt

CONSTANTS
    Scanners,       \* processes that look for games
    GameDirs,       \* game folders
    LibraryOf,      \* game folder -> the folder it lies in, which may hold several
    MountOf,        \* game folder -> mount point
    Drives,         \* volumes; "none" is not one of them
    Keys,           \* sequence of launchers' keys, in the order they are read
    CatalogLimits   \* bound: how often what may happen

ASSUME DiscoveryAssumption ==
    /\ DOMAIN MountOf = GameDirs /\ "none" \notin Drives
    /\ DOMAIN LibraryOf = GameDirs /\ Seqs!Range(LibraryOf) \cap GameDirs = {}
    /\ IsFiniteSet(Scanners) /\ IsFiniteSet(GameDirs) /\ "free" \notin Scanners
    /\ Len(Keys) \in Nat

VARIABLE catalog

CatalogKinds == {"scans", "drives", "installs", "updates", "locations", "stops", "badSaves", "badLists"}
Allowed(k) == catalog.left[k] > 0
Without(k) == [catalog.left EXCEPT ![k] = @ - 1]

Manual(place) == <<"manual", place>>
IsManual(record) == Head(record.ids)[1] = "manual"
NoScanning == [at |-> "off", next |-> 1, found |-> << >>, old |-> {}, locations |-> {}]

DiscoveryInit ==
    \E left \in CatalogLimits, drive \in Drives :
        catalog = [left |-> left, mounted |-> [m \in {MountOf[p] : p \in GameDirs} |-> drive],
                   folders |-> {},          \* <<drive, place>>
                   lists |-> [k \in 1..Len(Keys) |-> {}],
                   locations |-> {}, cache |-> {}, lock |-> "free",
                   scans |-> [s \in Scanners |-> NoScanning],
                   shown |-> [s \in Scanners |-> {}]]

DriveAt(place) == catalog.mounted[MountOf[place]]
There(place) == <<DriveAt(place), place>> \in catalog.folders

(***************************************************************************)
(* The machine.                                                            *)
(***************************************************************************)
Swaps ==
    /\ Allowed("drives")
    /\ \E m \in DOMAIN catalog.mounted, v \in Drives \cup {"none"} :
           /\ v # catalog.mounted[m]
           /\ catalog' = [catalog EXCEPT !.left = Without("drives"), !.mounted[m] = v]

\* A launcher lists a folder it installed, by either of two spellings of its path.
InstallsGame ==
    /\ Allowed("installs")
    /\ \E k \in 1..Len(Keys), p \in GameDirs, alias \in BOOLEAN :
           /\ DriveAt(p) # "none"
           /\ catalog' = [catalog EXCEPT !.left = Without("installs"),
                  !.lists[k] = {[place |-> p, alias |-> alias, busy |-> FALSE]},
                  !.folders = @ \cup {<<DriveAt(p), p>>}]
UpdatesGame ==
    /\ Allowed("updates")
    /\ \E k \in 1..Len(Keys) : \E g \in catalog.lists[k] :
           catalog' = [catalog EXCEPT !.left = Without("updates"),
                                      !.lists[k] = {[g EXCEPT !.busy = ~@]}]
RemovesGame ==
    /\ Allowed("installs")
    /\ \E k \in 1..Len(Keys) : \E g \in catalog.lists[k] :
           catalog' = [catalog EXCEPT !.left = Without("installs"), !.lists[k] = {},
                                      !.folders = @ \ {<<DriveAt(g.place), g.place>>}]

\* A location is one game, or a collection of games.
Covers(location, p) == location \in {p, LibraryOf[p]}
Covered(locations)  == {p \in GameDirs : \E l \in locations : Covers(l, p)}

AddPlace ==
    /\ Allowed("locations")
    /\ \E l \in (GameDirs \cup Seqs!Range(LibraryOf)) \ catalog.locations :
           /\ \E p \in Covered({l}) : DriveAt(p) # "none" /\ (l = p => There(p))
           /\ catalog' = [catalog EXCEPT !.left = Without("locations"), !.locations = @ \cup {l}]
RemovePlace ==
    /\ Allowed("locations")
    /\ \E l \in catalog.locations :
           catalog' = [catalog EXCEPT !.left = Without("locations"), !.locations = @ \ {l}]

(***************************************************************************)
(* A scan.                                                                 *)
(***************************************************************************)
ScanOf(s) == catalog.scans[s]
ScanAt(s, at) == ScanOf(s).at = at

StartsScan(s) ==
    /\ ScanAt(s, "off") /\ Allowed("scans")
    /\ catalog' = [catalog EXCEPT !.left = Without("scans"), !.scans[s] = [NoScanning EXCEPT !.at = "launchers"]]

\* A folder that is away is broken, unless its launcher says that it works on it.
StateOf(g) == IF g.busy THEN "busy" ELSE IF There(g.place) THEN "idle" ELSE "broken"
Sighting(id, g) == [ids |-> <<id>>, place |-> g.place, alias |-> g.alias, state |-> StateOf(g)]

ReadsLauncher(s) ==
    /\ ScanAt(s, "launchers")
    /\ LET k == ScanOf(s).next
           read(found) == [catalog EXCEPT !.scans[s] = [ScanOf(s) EXCEPT !.next = k + 1, !.found = @ \o found]]
       IN IF k > Len(Keys)
          THEN catalog' = [catalog EXCEPT !.scans[s].at = "custom"]
          ELSE \/ catalog' = read(Seqs!SetToSeq({Sighting(<<"launcher", Keys[k]>>, g) : g \in catalog.lists[k]}))
               \/ Allowed("badLists")   \* a manifest that cannot be read is a warning
                  /\ catalog' = [read(<< >>) EXCEPT !.left = Without("badLists")]

\* A collection that cannot be listed gives no games, a game whose files cannot be
\* inspected is broken, and both are warnings.
CustomGames(s) ==
    /\ ScanAt(s, "custom")
    /\ \E listed \in SUBSET catalog.locations, unread \in SUBSET GameDirs :
          LET paths  == {p \in Covered(listed) : There(p)}
              custom == {[ids |-> <<Manual(p)>>, place |-> p, alias |-> FALSE,
                          state |-> IF p \in unread THEN "broken" ELSE "idle"] : p \in paths}
              missed == catalog.locations \ listed
              went   == missed \cup unread # {}
          IN /\ unread \subseteq paths /\ missed \cap GameDirs = {}
             /\ went => Allowed("badLists")
             /\ catalog' = [catalog EXCEPT
                    !.left = IF went THEN Without("badLists") ELSE @,
                    !.scans[s] = [ScanOf(s) EXCEPT !.at = "merge", !.found = @ \o Seqs!SetToSeq(custom),
                                                   !.locations = catalog.locations]]

\* Sightings of one folder become the first of them; a later state that is not idle wins.
SameFolder(a, b) == a.place = b.place /\ a.alias = b.alias
Canonical(g) == IF There(g.place) THEN [g EXCEPT !.alias = FALSE] ELSE g
Resolved(old, new) == IF new.state # "idle" THEN new.state ELSE old.state
Joins(merged, sighting) ==
    LET g == Canonical(sighting)
        i == Seqs!SelectInSeq(merged, LAMBDA old : SameFolder(old, g))
        fresh == SelectSeq(g.ids, LAMBDA id : i # 0 /\ ~Seqs!Contains(merged[i].ids, id))
    IN IF i = 0 THEN Append(merged, g)
       ELSE [merged EXCEPT ![i] = [merged[i] EXCEPT !.ids = @ \o fresh, !.state = Resolved(merged[i], g)]]
Merged(found) == Seqs!FoldLeft(Joins, << >>, found)

Merges(s) ==
    /\ ScanAt(s, "merge")
    /\ catalog' = [catalog EXCEPT !.scans[s] = [ScanOf(s) EXCEPT !.at = "lock", !.found = Merged(@)]]

\* The cache is read, merged and written under a lock between the processes.
LockFree(s) == ScanAt(s, "lock") /\ catalog.lock = "free"
Locks(s) ==
    /\ LockFree(s)
    /\ catalog' = [catalog EXCEPT !.lock = s, !.scans[s].at = "read"]
ReadsCache(s) ==
    /\ ScanAt(s, "read")
    /\ catalog' = [catalog EXCEPT !.scans[s] = [ScanOf(s) EXCEPT !.at = "write", !.old = catalog.cache]]

\* Whether the drive a record was made on is at its place.
Online(record) == DriveAt(record.place) = record.drive
Keeps(s, record) == IsManual(record) => record.place \in Covered(ScanOf(s).locations)

\* Variant for a mutation: whatever is at the path is the game.
AnyDrive(old, g) == TRUE
\* A sighting of a path known on another drive is not that game.
OnItsDrive(old, g) == \A r \in old : SameFolder(r, g) => Online(r)
Current(found, old) ==
    {[ids |-> g.ids, place |-> g.place, alias |-> g.alias, state |-> g.state, drive |-> DriveAt(g.place)]
     : g \in {f \in found : OnItsDrive(old, f) /\ There(f.place)}}
Remembered(s) ==
    LET found   == Seqs!Range(ScanOf(s).found)  old == ScanOf(s).old
        current == Current(found, old)
    IN current \cup {[r EXCEPT !.state = "broken"]
                     : r \in {o \in old : Keeps(s, o) /\ \A c \in current : ~SameFolder(c, o)}}

Ends(s) == [catalog EXCEPT !.lock = IF @ = s THEN "free" ELSE @, !.scans[s] = NoScanning]
\* A write that fails leaves the old file, or the new one when only the folder could not
\* be synced; either way the scan has no result.
WritesCache(s) ==
    /\ ScanAt(s, "write")
    /\ \/ catalog' = [Ends(s) EXCEPT !.cache = Remembered(s), !.shown[s] = Remembered(s)]
       \/ /\ Allowed("badSaves")
          /\ \E left \in {catalog.cache, Remembered(s)} :
                 catalog' = [Ends(s) EXCEPT !.left = Without("badSaves"), !.cache = left]

\* Cancelled or killed, or a file of the catalog cannot be read: the scan has no result,
\* and the lock goes with the file handle.
StopsScan(s) ==
    /\ ~ScanAt(s, "off") /\ Allowed("stops")
    /\ catalog' = [Ends(s) EXCEPT !.left = Without("stops")]

ScanStep(s) ==
    \/ StartsScan(s) \/ ReadsLauncher(s) \/ CustomGames(s) \/ Merges(s) \/ Locks(s)
    \/ ReadsCache(s) \/ WritesCache(s)
DiscoveryNext ==
    \/ Swaps \/ InstallsGame \/ UpdatesGame \/ RemovesGame \/ AddPlace \/ RemovePlace
    \/ \E s \in Scanners : ScanStep(s) \/ StopsScan(s)

DiscoverySpec == DiscoveryInit /\ [][DiscoveryNext]_catalog

(***************************************************************************)
(* Correctness.                                                            *)
(***************************************************************************)
\* A game of a launcher that was remembered is not forgotten by a scan, however two of them
\* overlap, fail or are killed (libraries.rs:69).
RememberedKept ==
    [][\A r \in catalog.cache :
           ~IsManual(r) => \E new \in catalog'.cache : SameFolder(new, r)]_catalog

\* Another drive at the place of the one a game was found on does not pass for it: what a
\* scan lists as usable is on the drive it was first seen on (libraries.rs:84).
DriveNotConfused ==
    [][\A r \in catalog.cache, new \in catalog'.cache :
           SameFolder(r, new) /\ new.state # "broken" => new.drive = r.drive]_catalog

\* A game that one launcher is working on is not idle because another lists its folder too.
BusyWins ==
    [][\A s \in Scanners : ScanAt(s, "merge") /\ ScanAt(s, "lock")' =>
           \A i \in DOMAIN catalog'.scans[s].found, g \in Seqs!Range(catalog.scans[s].found) :
               LET merged == catalog'.scans[s].found[i]
               IN SameFolder(merged, Canonical(g)) /\ g.state # "idle" => merged.state # "idle"]_catalog

\* A game whose drive is back is usable again: a scan that saw it in use leaves no record of
\* it as broken while the drive it was found on is there.
BackIsUsable ==
    [][\A s \in Scanners : \A r \in catalog'.shown[s] :
           /\ catalog'.shown[s] # catalog.shown[s]
           /\ r.state = "broken" /\ Online(r) /\ There(r.place)
           => \A g \in Seqs!Range(ScanOf(s).found) : SameFolder(g, r) => g.state = "broken"]_catalog

\* What a scan lists is there, on the drive it was found on, and as busy as its launchers say.
CatalogTrue == RememberedKept /\ DriveNotConfused /\ BusyWins /\ BackIsUsable

\* "kept and marked `Broken`, so a game on a disconnected drive stays listed"
\* (launchers/desktop.rs:28): what a scan saw of a drive that is away is in its result.
AbsentStaysListed ==
    [][\A s \in Scanners : ScanAt(s, "write") /\ ~ScanAt(s, "write")' /\ catalog'.left = catalog.left =>
           \A g \in Seqs!Range(ScanOf(s).found) :
               \E r \in catalog'.shown[s] : r.place = g.place]_catalog
================================================================================
