------------------------------- MODULE FsServ -------------------------------
(***************************************************************************)
(* Open files: the table of the file server and its handlers (fs/serv.c),  *)
(* and the descriptors of its clients (lib/fd.c, lib/file.c).              *)
(*                                                                         *)
(* An open file has a page with its struct Fd, which the server and every  *)
(* descriptor of the file map; the server learns that a file was closed    *)
(* from the reference count of that page (lib/pageref.c).  After a fork    *)
(* parent and child have the page copy-on-write, and whoever seeks first   *)
(* gets a copy of its own that the server does not know of.                *)
(*                                                                         *)
(* A client sends a request and waits for the reply; the server handles    *)
(* one request after the other, in any order of the clients that wait.     *)
(* Of the files only the directory is kept (module FileSys has the rest),  *)
(* of fork only what happens to descriptors (module Fork has the rest).    *)
(***************************************************************************)
EXTENDS Integers, FiniteSets

CONSTANTS Clients,    \* environments that use files
          MAXOPEN,    \* entries of opentab
          MAXFD,      \* descriptors of a client
          Names, NoName,
          Files,      \* places for a struct File
          OpenBound,  \* bound: opens in all; below 2^31 / MAXOPEN, where ids turn negative
          Modes,      \* access modes files are opened with
          Uses,       \* what clients do with an open file
          Null

Entries == 0..(MAXOPEN - 1)
Fds     == 0..(MAXFD - 1)

ASSUME FsServAssumption ==
  /\ MAXOPEN \in Nat \ {0} /\ MAXFD \in Nat \ {0} /\ OpenBound \in Nat
  /\ NoName \notin Names /\ Files \subseteq Nat /\ IsFiniteSet(Files) /\ IsFiniteSet(Clients)
  /\ Null \notin Entries \cup Files \cup Clients
  /\ Modes \subseteq {"O_RDONLY", "O_WRONLY", "O_RDWR"}
  /\ Uses \subseteq {"read", "write", "stat", "set_size"}

\* A file id is o_fileid: how often the entry was opened, and its index.
Ids == (0..OpenBound) \X Entries

\* struct Fd.  dev is FALSE while fd_dev_id is not that of devfile.  The seek position
\* is left out: no property is about it.
Fd == [dev : BOOLEAN, id : Ids, mode : Modes \cup {"O_RDONLY"}]
Zeroed == [dev |-> FALSE, id |-> <<0, 0>>, mode |-> "O_RDONLY"]

\* What a descriptor maps: nothing, the page of entry k, or a copy with content fd.
\* cow: it is marked copy-on-write.  opened: history, the struct File it was opened on.
Unmapped == [page |-> "none", k |-> 0, fd |-> Zeroed, cow |-> FALSE, opened |-> Null]
Desc == [page : {"none", "entry", "copy"}, k : Entries, fd : Fd, cow : BOOLEAN,
         opened : Files \cup {Null}]

VARIABLES fileid,   \* o_fileid of each entry
          ofile,    \* o_file
          opens,    \* how often openfile_alloc has found an entry
          haspage,  \* the entries that have their Fd page
          fdpage,   \* the contents of the Fd pages
          names,    \* f_name of each struct File
          alive,    \* the clients there are
          desc,     \* their descriptors
          req,      \* the request each waits for the reply of, or Null
          srv,      \* the server waits ("recv"), is about to reply, or is down
          reply     \* what it is about to reply

tabVars == <<fileid, opens, ofile, haspage, fdpage, names>>
srvVars == <<srv, reply>>
vars    == <<tabVars, alive, desc, req, srvVars>>

Flags == {{}, {"O_CREAT"}, {"O_CREAT", "O_EXCL"}}

Requests ==
  [op : {"open"}, n : Fds, name : Names, flags : Flags, mode : Modes]
    \cup [op : {"remove"}, name : Names]
    \cup [op : Uses, n : Fds, id : Ids]
    \cup [op : {"flush"}, n : Fds, id : Ids, dup : Fds \cup {Null}]

\* whom is Null once the client is gone: its envid names nobody.
Replies == [whom : Clients \cup {Null}, ok : BOOLEAN, k : Entries \cup {Null},
            file : Files \cup {Null}]
NoReply == [whom |-> Null, ok |-> FALSE, k |-> Null, file |-> Null]

TypeOK ==
  /\ fileid \in [Entries -> Ids] /\ opens \in 0..OpenBound /\ ofile \in [Entries -> Files \cup {Null}]
  /\ haspage \subseteq Entries /\ fdpage \in [Entries -> Fd]
  /\ names \in [Files -> Names \cup {NoName}]
  /\ alive \subseteq Clients /\ desc \in [Clients -> [Fds -> Desc]]
  /\ req \in [Clients -> Requests \cup {Null}]
  /\ srv \in {"recv", "reply", "down"} /\ reply \in Replies

Init ==
  /\ fileid = [k \in Entries |-> <<0, k>>] /\ opens = 0 /\ ofile = [k \in Entries |-> Null]
  /\ haspage = {} /\ fdpage = [k \in Entries |-> Zeroed]
  /\ names = [f \in Files |-> NoName]
  /\ \E c \in Clients : alive = {c}
  /\ desc = [c \in Clients |-> [n \in Fds |-> Unmapped]]
  /\ req = [c \in Clients |-> Null]
  /\ srv = "recv" /\ reply = NoReply

-----------------------------------------------------------------------------
(* The client. *)

Runs(c) == c \in alive /\ req[c] = Null

Mapped(c, n)  == desc[c][n].page # "none"
Content(c, n) == IF desc[c][n].page = "entry" THEN fdpage[desc[c][n].k] ELSE desc[c][n].fd

(* fsipc, its first half. *)
Ask(c, r) ==
  /\ req' = [req EXCEPT ![c] = r]
  /\ UNCHANGED <<tabVars, alive, desc, srvVars>>

(* fd_alloc: the smallest descriptor without a page. *)
IsFdAlloc(c, n) == ~Mapped(c, n) /\ \A i \in 0..(n - 1) : Mapped(c, i)

open(c, name, flags, mode) ==
  /\ Runs(c)
  /\ \E n \in Fds : IsFdAlloc(c, n) /\
       Ask(c, [op |-> "open", n |-> n, name |-> name, flags |-> flags, mode |-> mode])

remove(c, name) == Runs(c) /\ Ask(c, [op |-> "remove", name |-> name])

(* read, write, fstat, ftruncate: fd_lookup, dev_lookup, and the mode. *)
Permits(op, mode) ==
  CASE op = "read" -> mode # "O_WRONLY"
    [] op \in {"write", "set_size"} -> mode # "O_RDONLY"
    [] op = "stat" -> TRUE

Use(c, n, op) ==
  /\ Runs(c) /\ Mapped(c, n)
  /\ Content(c, n).dev /\ Permits(op, Content(c, n).mode)
  /\ Ask(c, [op |-> op, n |-> n, id |-> Content(c, n).id])

(* close, and dup onto a descriptor that is open: both wait for a flush. *)
Unmap(c, n) == desc' = [desc EXCEPT ![c][n] = Unmapped]

close(c, n) ==
  /\ Runs(c) /\ Mapped(c, n)
  /\ IF Content(c, n).dev
     THEN Ask(c, [op |-> "flush", n |-> n, id |-> Content(c, n).id, dup |-> Null])
     ELSE Unmap(c, n) /\ UNCHANGED <<tabVars, alive, req, srvVars>>

dup(c, old, new) ==
  /\ Runs(c) /\ Mapped(c, old) /\ old # new
  /\ IF Mapped(c, new)
     THEN Ask(c, [op |-> "flush", n |-> new, id |-> Content(c, new).id, dup |-> old])
     ELSE desc' = [desc EXCEPT ![c][new] = desc[c][old]] /\ UNCHANGED <<tabVars, alive, req, srvVars>>

(* seek stores the position into the page, which a copy-on-write mark      *)
(* makes a copy of the descriptor's own.                                   *)
seek(c, n) ==
  /\ Runs(c) /\ Mapped(c, n) /\ desc[c][n].cow
  /\ desc' = [desc EXCEPT ![c][n] = [@ EXCEPT !.page = "copy", !.k = 0, !.cow = FALSE,
                                              !.fd = Content(c, n)]]
  /\ UNCHANGED <<tabVars, alive, req, srvVars>>

(* fork: the child has every descriptor, and both have them copy-on-write. *)
fork(c, child) ==
  /\ Runs(c) /\ child \notin alive
  /\ LET marked == [n \in Fds |-> [desc[c][n] EXCEPT !.cow = desc[c][n].page = "entry"]]
     IN desc' = [desc EXCEPT ![c] = marked, ![child] = marked]
  /\ alive' = alive \cup {child}
  /\ UNCHANGED <<tabVars, req, srvVars>>

(* exit, after close_all; or the client is destroyed, wherever it is. *)
env_destroy(c) ==
  /\ c \in alive
  /\ alive' = alive \ {c}
  /\ desc' = [desc EXCEPT ![c] = [n \in Fds |-> Unmapped]]
  /\ req' = [req EXCEPT ![c] = Null]
  /\ reply' = [reply EXCEPT !.whom = IF @ = c THEN Null ELSE @]
  /\ UNCHANGED <<tabVars, srv>>

-----------------------------------------------------------------------------
(* The server.  A definition marked `mutant' is a plausible mistake in the *)
(* code, kept to show that a property notices it.                          *)

\* References to the Fd page of entry k.
pageref(k) ==
  Cardinality({x \in Clients \X Fds : desc[x[1]][x[2]].page = "entry" /\ desc[x[1]][x[2]].k = k})
    + (IF k \in haspage THEN 1 ELSE 0)

\* mutant: an entry that one client has open counts as free
IsOpenfileAlloc_OneClient(k) == pageref(k) <= 2 /\ \A i \in 0..(k - 1) : pageref(i) > 2

(* openfile_alloc finds the first entry whose page no client has. *)
IsOpenfileAlloc(k) == pageref(k) <= 1 /\ \A i \in 0..(k - 1) : pageref(i) > 1

\* mutant: the first use of an entry counts twice (no fall through)
NextFileid_Twice(k) == <<fileid[k][1] + (IF k \in haspage THEN 1 ELSE 2), k>>

NextFileid(k) == <<fileid[k][1] + 1, k>>

\* mutant: only the index is looked at
openfile_lookup_NoId(id) == IF pageref(id[2]) = 1 THEN Null ELSE id[2]

openfile_lookup(id) ==
  IF pageref(id[2]) = 1 \/ fileid[id[2]] # id THEN Null ELSE id[2]

Answer(c, ok, k, file) ==
  srv' = "reply" /\ reply' = [whom |-> c, ok |-> ok, k |-> k, file |-> file]

NamedFile(name) == {f \in Files : names[f] = name}
FreeFile == {f \in Files : names[f] = NoName}

(* serve_open.  A failure after openfile_alloc leaves an entry with a new  *)
(* id and a cleared page.                                                  *)
OpenFails(c) ==
  /\ Answer(c, FALSE, Null, Null)
  /\ UNCHANGED <<ofile, names>>

OpenSucceeds(c, k, f) ==
  /\ ofile' = [ofile EXCEPT ![k] = f]
  /\ names' = [names EXCEPT ![f] = req[c].name]
  /\ Answer(c, TRUE, k, f)

serve_open(c) ==
  LET r     == req[c]
      there == NamedFile(r.name)
      fails == IF there = {} THEN "O_CREAT" \notin r.flags \/ FreeFile = {}
                             ELSE "O_EXCL" \in r.flags
  IN \/ /\ \A k \in Entries : IsOpenfileAlloc(k) => k \notin haspage   \* none, or no memory
        /\ OpenFails(c)
        /\ UNCHANGED <<fileid, opens, haspage, fdpage>>
     \/ \E k \in Entries :
          LET id == NextFileid(k) IN
          /\ IsOpenfileAlloc(k) /\ opens < OpenBound
          /\ opens' = opens + 1
          /\ fileid' = [fileid EXCEPT ![k] = id]
          /\ haspage' = haspage \cup {k}
          /\ \/ fails /\ OpenFails(c) /\ fdpage' = [fdpage EXCEPT ![k] = Zeroed]
             \/ /\ ~fails
                /\ \E f \in IF there # {} THEN there ELSE FreeFile :
                     /\ there = {} => \A g \in FreeFile : f <= g
                     /\ OpenSucceeds(c, k, f)
                /\ fdpage' = [fdpage EXCEPT ![k] =
                                [dev |-> TRUE, id |-> id, mode |-> r.mode]]

serve_remove(c) ==
  LET there == NamedFile(req[c].name) IN
  /\ names' = [f \in Files |-> IF f \in there THEN NoName ELSE names[f]]
  /\ Answer(c, there # {}, Null, Null)
  /\ UNCHANGED <<fileid, opens, ofile, haspage, fdpage>>

(* serve_read, serve_write, serve_stat, serve_set_size and serve_flush. *)
serve_file(c) ==
  LET k == openfile_lookup(req[c].id) IN
  /\ IF k = Null THEN Answer(c, FALSE, Null, Null) ELSE Answer(c, TRUE, Null, ofile[k])
  /\ UNCHANGED tabVars

serve(c) ==
  /\ srv = "recv" /\ req[c] # Null
  /\ CASE req[c].op = "open"   -> serve_open(c)
       [] req[c].op = "remove" -> serve_remove(c)
       [] OTHER                -> serve_file(c)
  /\ UNCHANGED <<alive, desc, req>>

(***************************************************************************)
(* The reply.  ipc_send to a client that is gone panics, and the server is *)
(* down.  Otherwise the client's call ends: the page of an open file is    *)
(* mapped, and close and dup do the rest of their work.                    *)
(***************************************************************************)
Reply ==
  LET c == reply.whom
      r == req[c]
  IN /\ srv = "reply" /\ reply' = NoReply
     /\ \/ c = Null /\ srv' = "down" /\ UNCHANGED <<desc, req>>
        \/ /\ c # Null
           /\ CASE r.op = "open" /\ reply.ok ->
                     desc' = [desc EXCEPT ![c][r.n] =
                                [Unmapped EXCEPT !.page = "entry", !.k = reply.k, !.opened = reply.file]]
                [] r.op = "flush" ->
                     desc' = [desc EXCEPT ![c][r.n] =
                                IF r.dup = Null THEN Unmapped ELSE desc[c][r.dup]]
                [] OTHER -> UNCHANGED desc
           /\ req' = [req EXCEPT ![c] = Null]
           /\ srv' = "recv"
     /\ UNCHANGED <<tabVars, alive>>

(* Without the server nothing is answered: the model ends there. *)
Next ==
  /\ srv # "down"
  /\ \/ \E c \in Clients :
          \/ \E name \in Names, flags \in Flags, mode \in Modes : open(c, name, flags, mode)
          \/ \E name \in Names : remove(c, name)
          \/ \E n \in Fds, op \in Uses : Use(c, n, op)
          \/ \E n \in Fds : close(c, n)
          \/ \E n, o \in Fds : dup(c, n, o)
          \/ \E n \in Fds : seek(c, n)
          \/ \E d \in Clients : fork(c, d)
          \/ env_destroy(c)
          \/ serve(c)
     \/ Reply

Spec == Init /\ [][Next]_vars

-----------------------------------------------------------------------------
(* As long as a client maps the page of an entry, the entry is that of the *)
(* file it opened: whatever other clients open, close, duplicate, fork and *)
(* leave behind when they die, the server never takes an entry that is in  *)
(* use for a free one.                                                     *)
EntryHeld ==
  \A c \in Clients, n \in Fds :
    desc[c][n].page = "entry" =>
      LET k == desc[c][n].k IN
      /\ k \in haspage /\ fdpage[k].dev /\ fdpage[k].id = fileid[k]
      /\ ofile[k] = desc[c][n].opened

(* A request on a descriptor is never carried out on a file the descriptor *)
(* was not opened on, also when its page is a copy that the server does    *)
(* not count and the entry has been given to another file since ("File IDs *)
(* are a lot like environment IDs", fs/serv.c:27).                         *)
ServesOwnFile ==
  reply.whom # Null /\ reply.ok =>
    LET r == req[reply.whom] IN
    r.op \in Uses \cup {"flush"} => reply.file = desc[reply.whom][r.n].opened
=============================================================================
