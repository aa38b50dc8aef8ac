----------------------------- MODULE Registration -----------------------------
(***************************************************************************)
(* How the device gets the identity it works under.  A boot reads the      *)
(* serial of the board, takes the identity file of the configured server   *)
(* if it still fits, and otherwise registers until the operator approves   *)
(* the device.  The board and the server of an installation may change     *)
(* while the process is down; the files stay.                              *)
(*                                                                         *)
(* The server is external: it keeps a registry of devices by serial and    *)
(* hands out a token for each registration of an approved one.             *)
(***************************************************************************)
EXTENDS Naturals, Sequences

CONSTANTS
    Urls,       \* the servers an installation may name
    Host,       \* for each of them, the slug of its host and port
    Serials,    \* what the sources of a serial may hold
    Boards,     \* boards: for each source, a serial or "none"
    Life,       \* how long a token lives
    MaxRetries, \* register: retries after an error
    MaxPolls,   \* ensure_registered: polls for the approval
    MaxTime,    \* bound of the clock
    MaxChanges, \* bound: boards and installations changed, kills
    MaxFaults   \* bound: requests, answers and reads that fail

Sources == <<"env", "cpu", "tree", "machine">>
NoIdentity == [dev |-> "none", server |-> "none", exp |-> 0]
Identity == [dev : Serials \cup {"none"}, server : Urls \cup {"none"}, exp : 0 .. MaxTime + Life]

VARIABLES
    board,    \* the board the device has
    url,      \* the server of the installation
    single,   \* SENLYT_IDENTITY_PATH names one file for every server
    files,    \* identity files; NoIdentity for one that is absent or unreadable
    registry, \* external: what the server knows of each device
    clock,    \* the time, in units of a token's life
    proc,     \* the process
    last,     \* history: the identity a finished save left for each server
    spent     \* bounds used up

vars == <<board, url, single, files, registry, clock, proc, last, spent>>

-----------------------------------------------------------------------------
\* Mutant: one file whatever the server.
OneFile(u) == "one"

\* _identity_path: a file for each host and port, whatever the scheme and the
\* path of the URL.
Places == {Host[u] : u \in Urls} \cup {"one"}
Path(u) == IF single THEN "one" ELSE Host[u]

\* read_hardware_id: the first source that can be read and holds a serial.
ReadHardwareId(unread) ==
    LET held == {i \in 1 .. Len(Sources) : Sources[i] \notin unread /\ board[Sources[i]] # "none"}
    IN  IF held = {} THEN "none"
        ELSE board[Sources[CHOOSE i \in held : \A j \in held : i <= j]]

\* Mutant: an identity without a server is taken for one of this server.
FitsOldFile(f, id) == f.dev = id /\ f.server \in {url, "none"} /\ clock < f.exp

\* ensure_registered: the stored identity is of this device, of this server and
\* has not expired.
Fits(f, id) == f.dev = id /\ f.server = url /\ clock < f.exp

Off == [pc |-> "off", id |-> "none", attempt |-> 0, poll |-> 0, held |-> NoIdentity, was |-> NoIdentity]
Faulty == spent.faults < MaxFaults
Fault == spent' = [spent EXCEPT !.faults = @ + 1]
Change(n) == spent.changes + n <= MaxChanges /\ spent' = [spent EXCEPT !.changes = @ + n]

\* Mutant: the error is reported and the process stays.
Lingers == [proc EXCEPT !.pc = "failed"]

\* The boot gives up: the process ends and systemd starts it again.
GivenUp == Off

-----------------------------------------------------------------------------
(* The boot.                                                               *)

\* build_components: a serial that cannot be read ends the boot.
Boot ==
    /\ proc.pc = "off"
    /\ \E unread \in {{}} \cup (IF Faulty THEN {{"cpu"}, {"cpu", "tree", "machine"}} ELSE {}) :
         LET id == ReadHardwareId(unread)
             file == files[Path(url)]
         IN  /\ IF unread = {} THEN id # "none" /\ spent' = spent ELSE Fault
             /\ proc' = IF id = "none" THEN GivenUp
                        ELSE IF Fits(file, id) THEN [Off EXCEPT !.pc = "up", !.id = id, !.held = file]
                        ELSE [Off EXCEPT !.pc = "calling", !.id = id]
    /\ UNCHANGED <<board, url, single, files, registry, clock, last>>

\* The server's part of a registration: a device it does not know waits for
\* the operator.
Listed == [registry EXCEPT ![url][proc.id] = IF @ = "unknown" THEN "pending" ELSE @]

\* register: the request or its answer is lost, the server errs, the answer is
\* malformed, or the branch is not active (the server lists nothing then).
RetryableError ==
    /\ proc.pc = "calling" /\ Faulty /\ Fault
    /\ registry' \in {registry, Listed}
    /\ proc' = IF proc.attempt < MaxRetries THEN [proc EXCEPT !.attempt = @ + 1] ELSE GivenUp
    /\ UNCHANGED <<board, url, single, files, clock, last>>

\* register: any other 4xx ends the boot at once.
PermanentError ==
    /\ proc.pc = "calling" /\ Faulty /\ Fault
    /\ proc' = GivenUp
    /\ UNCHANGED <<board, url, single, files, registry, clock, last>>

\* register answered 202: ensure_registered sleeps and registers again, with
\* its retries anew, as often as it may.
Pending ==
    /\ proc.pc = "calling" /\ registry[url][proc.id] # "approved"
    /\ registry' = Listed
    /\ proc' = IF proc.poll < MaxPolls THEN [proc EXCEPT !.attempt = 0, !.poll = @ + 1] ELSE GivenUp
    /\ UNCHANGED <<board, url, single, files, clock, last, spent>>

\* register answered 200: parse_register_response keeps the device's own
\* serial, the server is engraved, and save replaces the file.
Granted ==
    LET issued == [dev |-> proc.id, server |-> url, exp |-> clock + Life]
    IN  /\ proc.pc = "calling" /\ registry[url][proc.id] = "approved"
        /\ files' = [files EXCEPT ![Path(url)] = issued]
        /\ proc' = [proc EXCEPT !.pc = "saving", !.held = issued, !.was = files[Path(url)]]
        /\ last' = [last EXCEPT ![url] = NoIdentity]
        /\ UNCHANGED <<board, url, single, registry, clock, spent>>

\* _fsync_dir: only now does the new file outlive a power cut.
Saved ==
    /\ proc.pc = "saving"
    /\ proc' = [proc EXCEPT !.pc = "up", !.was = NoIdentity]
    /\ last' = [last EXCEPT ![url] = proc.held]
    /\ UNCHANGED <<board, url, single, files, registry, clock, spent>>

-----------------------------------------------------------------------------
(* What happens to it.                                                     *)

Kill ==
    /\ proc.pc # "off" /\ Change(1)
    /\ proc' = Off
    /\ UNCHANGED <<board, url, single, files, registry, clock, last>>

\* A power cut, after which the board may be another one.
PowerCut ==
    /\ Change(1)
    /\ board' \in Boards
    /\ proc' = Off
    /\ files' \in {files} \cup
         (IF proc.pc = "saving" THEN {[files EXCEPT ![Path(url)] = proc.was]} ELSE {})
    /\ UNCHANGED <<url, single, registry, clock, last>>

\* The device is installed for another server: install.sh starts it anew.
Reinstall ==
    /\ Change(1)
    /\ url' \in Urls \ {url}
    /\ proc' = Off
    /\ UNCHANGED <<board, single, files, registry, clock, last>>

\* The operator approves a device that waits.
Approve ==
    /\ \E u \in Urls, s \in Serials :
         registry[u][s] = "pending" /\ registry' = [registry EXCEPT ![u][s] = "approved"]
    /\ UNCHANGED <<board, url, single, files, clock, proc, last, spent>>

Tick ==
    /\ clock < MaxTime
    /\ clock' = clock + 1
    /\ UNCHANGED <<board, url, single, files, registry, proc, last, spent>>

\* Files of earlier versions name no server, or the id the server once made up.
Init ==
    /\ board \in Boards /\ url \in Urls /\ single \in BOOLEAN
    /\ \E old \in {NoIdentity} \cup [dev : Serials, server : {"none"}, exp : {Life}] :
         files = [p \in Places |-> old]
    /\ registry = [u \in Urls |-> [s \in Serials |-> "unknown"]]
    /\ clock = 0
    /\ proc = Off
    /\ last = [u \in Urls |-> NoIdentity]
    /\ spent = [changes |-> 0, faults |-> 0]

Step == Boot \/ Pending \/ Granted \/ Saved
Next ==
    \/ Step \/ RetryableError \/ PermanentError
    \/ Kill \/ PowerCut \/ Reinstall \/ Approve \/ Tick

Spec == Init /\ [][Next]_vars
\* The process goes on, and systemd starts it again when it has ended.
FairSpec == Spec /\ WF_vars(Step)

-----------------------------------------------------------------------------
\* The model is well typed: attempts and polls within what register and
\* ensure_registered allow.
TypeOK ==
    /\ board \in Boards /\ url \in Urls /\ single \in BOOLEAN
    /\ files \in [Places -> Identity]
    /\ registry \in [Urls -> [Serials -> {"unknown", "pending", "approved"}]]
    /\ clock \in 0 .. MaxTime
    /\ proc \in [pc : {"off", "calling", "saving", "up"}, id : Serials \cup {"none"},
                 attempt : 0 .. MaxRetries, poll : 0 .. MaxPolls, held : Identity, was : Identity]
    /\ last \in [Urls -> Identity]
    /\ spent \in [changes : 0 .. MaxChanges, faults : 0 .. MaxFaults]

\* Whatever files earlier boots, boards and installations left, the daemon runs
\* under an identity of the serial it read and of the server it talks to, and
\* this server has approved it.
WorksUnderItsOwn ==
    proc.pc = "up" =>
        /\ proc.held.dev = proc.id /\ proc.held.server = url
        /\ registry[url][proc.id] = "approved"

\* No other server of the installations has this one's host and port.
Alone(u) == \A v \in Urls : Host[v] = Host[u] => v = u

\* "돌아오면 재승인·왕복 없이 즉시 재사용" (bootstrap.py): with a file of its own,
\* a device asks a server for a token only if the one saved last there is
\* another board's or has expired, wherever it was installed in between.
ReturnsWithoutAsking ==
    ~single /\ Alone(url) /\ proc.pc = "calling" =>
        ~(last[url].dev = proc.id /\ clock < last[url].exp)

\* A device that stays approved where it is installed ends up working, whatever
\* file it finds and whichever boots failed before.
PairsInTheEnd ==
    (<>[](registry[url][ReadHardwareId({})] = "approved")) => <>[](proc.pc = "up")
=============================================================================
