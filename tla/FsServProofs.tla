---------------------------- MODULE FsServProofs ----------------------------
(***************************************************************************)
(* Proofs about the open files of FsServ: the server never takes an entry  *)
(* that a client has open for a free one, and carries a request out on the *)
(* file its descriptor was opened on.                                      *)
(***************************************************************************)
EXTENDS FsServ, FiniteSetTheorems, TLAPS

(* A file id given out for file f: its entry has not been opened less      *)
(* often, and if it has not been opened again it still is that of f.       *)
Known(id, f) ==
  /\ id[1] <= fileid[id[2]][1]
  /\ fileid[id[2]] = id => ofile[id[2]] = f

(* Entry k is open on file f. *)
Holds(k, f) ==
  /\ k \in haspage /\ fdpage[k].dev /\ fdpage[k].id = fileid[k]
  /\ ofile[k] = f

(* A descriptor maps an entry that is held for it, or has a copy of the    *)
(* struct Fd of an entry that was.                                         *)
DescGood(x) ==
  /\ x.page = "entry" => Holds(x.k, x.opened)
  /\ x.page = "copy"  => Known(x.fd.id, x.opened)

DescsGood == \A c \in Clients, n \in Fds : DescGood(desc[c][n])

(* Every opening of an entry counts. *)
IdsCounted == \A k \in Entries : fileid[k][2] = k /\ fileid[k][1] <= opens

(* A client that waits is alive, and a request carries an id that its      *)
(* descriptor had.                                                         *)
FileRequest(r) == r # Null /\ r.op \in Uses \cup {"flush"}

RequestsKnown ==
  \A c \in Clients :
    /\ req[c] # Null => c \in alive
    /\ FileRequest(req[c]) => Known(req[c].id, desc[c][req[c].n].opened)

(* The client that is to be answered waits.  If it opens a file, the entry *)
(* is held for it already.                                                 *)
ReplyPending ==
  /\ srv # "reply" => reply.whom = Null
  /\ reply.whom # Null =>
       /\ req[reply.whom] # Null
       /\ req[reply.whom].op = "open" /\ reply.ok =>
            reply.k \in Entries /\ reply.file \in Files /\ Holds(reply.k, reply.file)

(***************************************************************************)
(* The inductive invariant.                                                *)
(***************************************************************************)
FInv == TypeOK /\ IdsCounted /\ DescsGood /\ RequestsKnown /\ ReplyPending /\ ServesOwnFile

-----------------------------------------------------------------------------
(* Types. *)

(* What a request carries. *)
LEMMA RequestType ==
  ASSUME NEW r \in Requests
  PROVE  /\ r.op = "open" => r.n \in Fds /\ r.name \in Names /\ r.mode \in Modes
         /\ r.op = "remove" => r.name \in Names
         /\ r.op \in Uses \cup {"flush"} => r.n \in Fds /\ r.id \in Ids
         /\ r.op = "flush" => r.dup \in Fds \cup {Null}
         /\ r.op \in {"open", "remove", "flush"} \cup Uses
  BY FsServAssumption DEF Requests

(* Opening and removing are no operations on an open file. *)
LEMMA OpsDiffer == "open" \notin Uses \cup {"flush"} /\ "remove" \notin Uses \cup {"flush"}
  BY FsServAssumption

(* A descriptor that maps nothing. *)
LEMMA UnmappedType ==
  /\ Unmapped \in Desc /\ Unmapped.page = "none"
  /\ Zeroed \in Fd
  <1>1. 0 \in Entries /\ <<0, 0>> \in Ids
    BY FsServAssumption DEF Entries, Ids
  <1>2. Zeroed \in Fd
    BY <1>1 DEF Zeroed, Fd
  <1> QED  BY <1>1, <1>2 DEF Unmapped, Desc

(* The parts of a descriptor. *)
LEMMA DescParts ==
  ASSUME NEW x \in Desc
  PROVE  /\ x.page \in {"none", "entry", "copy"} /\ x.k \in Entries
         /\ x.fd \in Fd /\ x.fd.id \in Ids /\ x.opened \in Files \cup {Null}
  BY DEF Desc, Fd

(* An id is a count and an entry. *)
LEMMA IdParts ==
  ASSUME NEW id \in Ids
  PROVE  id[1] \in 0..OpenBound /\ id[2] \in Entries /\ id = <<id[1], id[2]>>
  BY DEF Ids

(* The state of the descriptors and requests in parts. *)
LEMMA StateParts ==
  ASSUME TypeOK
  PROVE  /\ \A c \in Clients, n \in Fds : desc[c][n] \in Desc
         /\ \A k \in Entries : /\ fileid[k] \in Ids /\ fdpage[k] \in Fd /\ fdpage[k].id \in Ids
                               /\ ofile[k] \in Files \cup {Null}
         /\ \A c \in Clients : req[c] # Null => req[c] \in Requests
  BY DEF TypeOK, Fd

(* The id in the page of a mapped descriptor is one of its file. *)
LEMMA ContentKnown ==
  ASSUME FInv, NEW c \in Clients, NEW n \in Fds, Mapped(c, n)
  PROVE  Content(c, n).id \in Ids /\ Known(Content(c, n).id, desc[c][n].opened)
  <1>1. PICK x \in Desc : x = desc[c][n]
    BY StateParts DEF FInv
  <1>2. DescGood(x) /\ x.page # "none"
    BY <1>1 DEF FInv, DescsGood, Mapped
  <1>3. CASE x.page = "entry"
    <2>1. PICK k \in Entries : k = x.k
      BY DescParts
    <2>2. Content(c, n).id = fileid[k] /\ ofile[k] = x.opened
      BY <1>1, <1>2, <1>3, <2>1 DEF Content, DescGood, Holds
    <2>3. fileid[k] \in Ids /\ fileid[k][2] = k
      BY StateParts DEF FInv, IdsCounted
    <2>4. fileid[k][1] <= fileid[k][1]
      BY <2>3, IdParts
    <2> QED  BY <1>1, <2>2, <2>3, <2>4 DEF Known
  <1>4. CASE x.page = "copy"
    BY <1>1, <1>2, <1>4, DescParts DEF Content, DescGood
  <1> QED  BY <1>2, <1>3, <1>4, DescParts

-----------------------------------------------------------------------------
(* The clients. *)

(* A step of the clients: the table stays, every descriptor and every      *)
(* request is good, and nothing happens to the one that is being answered. *)
LEMMA ClientStep ==
  ASSUME FInv, UNCHANGED <<tabVars, srv>>,
         desc' \in [Clients -> [Fds -> Desc]],
         \A c \in Clients, n \in Fds : DescGood(desc'[c][n]),
         alive' \subseteq Clients, req' \in [Clients -> Requests \cup {Null}],
         \A c \in Clients : /\ req'[c] # Null => c \in alive'
                            /\ FileRequest(req'[c])
                                 => Known(req'[c].id, desc'[c][req'[c].n].opened),
         reply' \in Replies,
         reply'.whom # Null =>
           /\ reply' = reply /\ req'[reply.whom] = req[reply.whom]
           /\ desc'[reply.whom] = desc[reply.whom]
  PROVE  FInv'
  <1>1. UNCHANGED <<fileid, opens, ofile, haspage, fdpage, names, srv>>
    BY DEF tabVars
  <1>2. TypeOK'
    BY <1>1 DEF FInv, TypeOK
  <1>3. IdsCounted'
    BY <1>1 DEF FInv, IdsCounted
  <1>4. DescsGood'
    BY <1>1 DEF DescsGood, DescGood, Holds, Known
  <1>5. RequestsKnown'
    BY <1>1 DEF RequestsKnown, FileRequest, Known
  <1>6. ReplyPending'
    BY <1>1 DEF FInv, ReplyPending, Holds
  <1>7. ServesOwnFile'
    BY <1>1 DEF FInv, ServesOwnFile
  <1> QED  BY <1>2, <1>3, <1>4, <1>5, <1>6, <1>7 DEF FInv

(* A client sends a request. *)
LEMMA AskKeeps ==
  ASSUME FInv, NEW c \in Clients, Runs(c), NEW r \in Requests, Ask(c, r),
         FileRequest(r) => Known(r.id, desc[c][r.n].opened)
  PROVE  FInv'
  <1>1. /\ UNCHANGED <<tabVars, srv, reply, alive, desc>>
        /\ req' = [req EXCEPT ![c] = r]
    BY DEF Ask, srvVars
  <1>2. /\ req \in [Clients -> Requests \cup {Null}] /\ desc \in [Clients -> [Fds -> Desc]]
        /\ alive \subseteq Clients /\ reply \in Replies
    BY DEF FInv, TypeOK
  <1>3. req' \in [Clients -> Requests \cup {Null}]
    BY <1>1, <1>2
  <1>4. \A d \in Clients : /\ req'[d] # Null => d \in alive
                           /\ FileRequest(req'[d]) => Known(req'[d].id, desc[d][req'[d].n].opened)
    BY <1>1, <1>2 DEF FInv, RequestsKnown, Runs
  <1>5. \A d \in Clients, n \in Fds : DescGood(desc[d][n])
    BY DEF FInv, DescsGood
  <1>6. reply.whom # Null => reply.whom # c
    BY DEF FInv, ReplyPending, Runs
  <1> QED  BY <1>1, <1>2, <1>3, <1>4, <1>5, <1>6, ClientStep

(* A client that waits for nothing changes one of its descriptors. *)
LEMMA DescKeeps ==
  ASSUME FInv, NEW c \in Clients, Runs(c), NEW n \in Fds, NEW x \in Desc, DescGood(x),
         desc' = [desc EXCEPT ![c][n] = x],
         UNCHANGED <<tabVars, alive, req, srvVars>>
  PROVE  FInv'
  <1>1. UNCHANGED <<tabVars, srv, reply, alive, req>>
    BY DEF srvVars
  <1>2. /\ req \in [Clients -> Requests \cup {Null}] /\ desc \in [Clients -> [Fds -> Desc]]
        /\ alive \subseteq Clients /\ reply \in Replies
    BY DEF FInv, TypeOK
  <1>3. /\ desc' \in [Clients -> [Fds -> Desc]]
        /\ \A d \in Clients \ {c} : desc'[d] = desc[d]
        /\ desc'[c][n] = x /\ \A m \in Fds \ {n} : desc'[c][m] = desc[c][m]
    BY <1>2
  <1>4. \A d \in Clients, m \in Fds : DescGood(desc'[d][m])
    BY <1>3 DEF FInv, DescsGood
  <1>5. \A d \in Clients : /\ req[d] # Null => d \in alive
                           /\ FileRequest(req[d]) => Known(req[d].id, desc'[d][req[d].n].opened)
    BY <1>3 DEF FInv, RequestsKnown, Runs, FileRequest
  <1>6. reply.whom # Null => reply.whom # c /\ reply.whom \in Clients
    BY <1>2 DEF FInv, ReplyPending, Runs, Replies
  <1> QED  BY <1>1, <1>2, <1>3, <1>4, <1>5, <1>6, ClientStep

(* open and remove. *)
LEMMA OpenKeeps ==
  ASSUME FInv, NEW c \in Clients, NEW name \in Names, NEW flags \in Flags, NEW mode \in Modes,
         open(c, name, flags, mode)
  PROVE  FInv'
  <1>1. PICK n \in Fds :
          Ask(c, [op |-> "open", n |-> n, name |-> name, flags |-> flags, mode |-> mode])
    BY DEF open
  <1>2. PICK r : r = [op |-> "open", n |-> n, name |-> name, flags |-> flags, mode |-> mode]
    OBVIOUS
  <1>3. r \in Requests /\ ~FileRequest(r)
    BY <1>2, OpsDiffer DEF Requests, FileRequest
  <1> QED  BY <1>1, <1>2, <1>3, AskKeeps DEF open

(* remove. *)
LEMMA RemoveKeeps ==
  ASSUME FInv, NEW c \in Clients, NEW name \in Names, remove(c, name)
  PROVE  FInv'
  <1>1. PICK r : r = [op |-> "remove", name |-> name]
    OBVIOUS
  <1>2. r \in Requests /\ ~FileRequest(r)
    BY <1>1, OpsDiffer DEF Requests, FileRequest
  <1> QED  BY <1>1, <1>2, AskKeeps DEF remove

(* read, write, fstat and ftruncate send the id of the descriptor. *)
LEMMA UseKeeps ==
  ASSUME FInv, NEW c \in Clients, NEW n \in Fds, NEW op \in Uses, Use(c, n, op)
  PROVE  FInv'
  <1>1. PICK r : r = [op |-> op, n |-> n, id |-> Content(c, n).id]
    OBVIOUS
  <1>2. Content(c, n).id \in Ids /\ Known(Content(c, n).id, desc[c][n].opened)
    BY ContentKnown DEF Use
  <1>3. r \in Requests /\ Known(r.id, desc[c][r.n].opened)
    BY <1>1, <1>2 DEF Requests
  <1> QED  BY <1>1, <1>3, AskKeeps DEF Use

(* The flush that close and dup wait for. *)
LEMMA FlushKeeps ==
  ASSUME FInv, NEW c \in Clients, NEW n \in Fds, NEW o \in Fds \cup {Null}, Runs(c), Mapped(c, n),
         Ask(c, [op |-> "flush", n |-> n, id |-> Content(c, n).id, dup |-> o])
  PROVE  FInv'
  <1>1. PICK r : r = [op |-> "flush", n |-> n, id |-> Content(c, n).id, dup |-> o]
    OBVIOUS
  <1>2. Content(c, n).id \in Ids /\ Known(Content(c, n).id, desc[c][n].opened)
    BY ContentKnown
  <1>3. r \in Requests /\ Known(r.id, desc[c][r.n].opened)
    BY <1>1, <1>2 DEF Requests
  <1> QED  BY <1>1, <1>3, AskKeeps

(* close. *)
LEMMA CloseKeeps ==
  ASSUME FInv, NEW c \in Clients, NEW n \in Fds, close(c, n)
  PROVE  FInv'
  <1>1. CASE Content(c, n).dev
    BY <1>1, FlushKeeps DEF close
  <1>2. CASE ~Content(c, n).dev
    <2>1. DescGood(Unmapped)
      BY UnmappedType DEF DescGood
    <2> QED  BY <1>2, <2>1, UnmappedType, DescKeeps DEF close, Unmap
  <1> QED  BY <1>1, <1>2

(* dup: the copy is as good as the original. *)
LEMMA DupKeeps ==
  ASSUME FInv, NEW c \in Clients, NEW old \in Fds, NEW new \in Fds, dup(c, old, new)
  PROVE  FInv'
  <1>1. CASE Mapped(c, new)
    BY <1>1, FlushKeeps DEF dup
  <1>2. CASE ~Mapped(c, new)
    <2>1. desc[c][old] \in Desc /\ DescGood(desc[c][old])
      BY StateParts DEF FInv, DescsGood
    <2> QED  BY <1>2, <2>1, DescKeeps DEF dup
  <1> QED  BY <1>1, <1>2

(* seek: the copy has the id of the entry it was made of. *)
LEMMA SeekKeeps ==
  ASSUME FInv, NEW c \in Clients, NEW n \in Fds, seek(c, n)
  PROVE  FInv'
  <1>1. PICK x : x = [desc[c][n] EXCEPT !.page = "copy", !.k = 0, !.cow = FALSE,
                                         !.fd = Content(c, n)]
    OBVIOUS
  <1>2. Content(c, n).id \in Ids /\ Known(Content(c, n).id, desc[c][n].opened)
    BY ContentKnown DEF seek
  <1>3. Content(c, n) \in Fd /\ desc[c][n] \in Desc /\ 0 \in Entries
    BY StateParts, DescParts, FsServAssumption DEF FInv, Content, Entries
  <1>4. x \in Desc /\ x.page = "copy" /\ x.fd = Content(c, n) /\ x.opened = desc[c][n].opened
    BY <1>1, <1>3 DEF Desc
  <1>5. DescGood(x)
    BY <1>2, <1>4 DEF DescGood
  <1> QED  BY <1>1, <1>4, <1>5, DescKeeps DEF seek

(* fork: a mark does not change what a descriptor stands for, and the      *)
(* child waits for nothing.                                                *)
LEMMA ForkKeeps ==
  ASSUME FInv, NEW c \in Clients, NEW child \in Clients, fork(c, child)
  PROVE  FInv'
  <1>1. PICK marked :
          /\ marked = [n \in Fds |-> [desc[c][n] EXCEPT !.cow = desc[c][n].page = "entry"]]
          /\ desc' = [desc EXCEPT ![c] = marked, ![child] = marked]
    BY DEF fork
  <1>2. /\ UNCHANGED <<tabVars, srv, reply, req>> /\ alive' = alive \cup {child}
        /\ req[c] = Null /\ c \in alive /\ child \notin alive
    BY DEF fork, srvVars, Runs
  <1>3. /\ req \in [Clients -> Requests \cup {Null}] /\ desc \in [Clients -> [Fds -> Desc]]
        /\ alive \subseteq Clients /\ reply \in Replies
    BY DEF FInv, TypeOK
  <1>4. req[child] = Null
    BY <1>2 DEF FInv, RequestsKnown
  <1>5. ASSUME NEW n \in Fds
        PROVE  marked[n] \in Desc /\ DescGood(marked[n])
    <2>1. PICK x \in Desc : x = desc[c][n] /\ DescGood(x)
      BY StateParts DEF FInv, DescsGood
    <2>2. marked[n] = [x EXCEPT !.cow = x.page = "entry"]
      BY <1>1, <2>1
    <2>3. (x.page = "entry") \in BOOLEAN
      OBVIOUS
    <2>4. /\ marked[n] \in Desc /\ marked[n].page = x.page /\ marked[n].k = x.k
          /\ marked[n].fd = x.fd /\ marked[n].opened = x.opened
      BY <2>2, <2>3 DEF Desc
    <2> QED  BY <2>1, <2>4 DEF DescGood
  <1>6. marked \in [Fds -> Desc]
    BY <1>1, <1>5
  <1>7. /\ desc' \in [Clients -> [Fds -> Desc]]
        /\ \A d \in Clients \ {c, child} : desc'[d] = desc[d]
        /\ desc'[c] = marked /\ desc'[child] = marked
    BY <1>1, <1>3, <1>6
  <1>8. \A d \in Clients, n \in Fds : DescGood(desc'[d][n])
    BY <1>5, <1>7 DEF FInv, DescsGood
  <1>9. \A d \in Clients : /\ req[d] # Null => d \in alive'
                           /\ FileRequest(req[d]) => Known(req[d].id, desc'[d][req[d].n].opened)
    BY <1>2, <1>4, <1>7 DEF FInv, RequestsKnown, FileRequest
  <1>10. reply.whom # Null => reply.whom \in Clients \ {c, child}
    BY <1>2, <1>3, <1>4 DEF FInv, ReplyPending, Replies
  <1>11. alive' \subseteq Clients
    BY <1>2, <1>3
  <1> QED  BY <1>2, <1>3, <1>7, <1>8, <1>9, <1>10, <1>11, ClientStep

(* A client ends: nobody is left to be answered. *)
LEMMA DestroyKeeps ==
  ASSUME FInv, NEW c \in Clients, env_destroy(c)
  PROVE  FInv'
  <1>1. PICK none : none = [n \in Fds |-> Unmapped]
    OBVIOUS
  <1>2. /\ UNCHANGED <<tabVars, srv>> /\ alive' = alive \ {c}
        /\ desc' = [desc EXCEPT ![c] = none]
        /\ req' = [req EXCEPT ![c] = Null]
        /\ reply' = [reply EXCEPT !.whom = IF @ = c THEN Null ELSE @]
    BY <1>1 DEF env_destroy
  <1>3. /\ req \in [Clients -> Requests \cup {Null}] /\ desc \in [Clients -> [Fds -> Desc]]
        /\ alive \subseteq Clients /\ reply \in Replies
    BY DEF FInv, TypeOK
  <1>4. none \in [Fds -> Desc] /\ \A n \in Fds : DescGood(none[n])
    BY <1>1, UnmappedType DEF DescGood
  <1>5. /\ desc' \in [Clients -> [Fds -> Desc]] /\ desc'[c] = none
        /\ \A d \in Clients \ {c} : desc'[d] = desc[d]
        /\ req' \in [Clients -> Requests \cup {Null}] /\ req'[c] = Null
        /\ \A d \in Clients \ {c} : req'[d] = req[d]
    BY <1>2, <1>3, <1>4
  <1>6. \A d \in Clients, n \in Fds : DescGood(desc'[d][n])
    BY <1>4, <1>5 DEF FInv, DescsGood
  <1>7. \A d \in Clients : /\ req'[d] # Null => d \in alive'
                           /\ FileRequest(req'[d]) => Known(req'[d].id, desc'[d][req'[d].n].opened)
    BY <1>2, <1>5 DEF FInv, RequestsKnown, FileRequest
  <1>8. reply' \in Replies /\ reply'.whom = IF reply.whom = c THEN Null ELSE reply.whom
    BY <1>2, <1>3 DEF Replies
  <1>9. ASSUME reply'.whom # Null
        PROVE  reply' = reply /\ reply.whom \in Clients \ {c}
    BY <1>2, <1>3, <1>8, <1>9 DEF Replies
  <1>10. alive' \subseteq Clients
    BY <1>2, <1>3
  <1> QED  BY <1>2, <1>5, <1>6, <1>7, <1>8, <1>9, <1>10, ClientStep

-----------------------------------------------------------------------------
(* The server. *)

(* A step of the server: what descriptors and requests rest on stays true. *)
LEMMA ServerStep ==
  ASSUME FInv, UNCHANGED <<alive, desc, req>>, TypeOK', IdsCounted',
         \A c \in Clients, n \in Fds : DescGood(desc[c][n]) => DescGood(desc[c][n])',
         \A id \in Ids, f \in Files \cup {Null} : Known(id, f) => Known(id, f)',
         ReplyPending', ServesOwnFile'
  PROVE  FInv'
  <1>1. DescsGood'
    BY DEF FInv, DescsGood
  <1>2. RequestsKnown'
    <2> SUFFICES ASSUME NEW c \in Clients
                 PROVE  /\ req[c] # Null => c \in alive
                        /\ FileRequest(req[c]) => Known(req[c].id, desc[c][req[c].n].opened)'
      BY DEF RequestsKnown, FileRequest
    <2>1. req[c] # Null => c \in alive
      BY DEF FInv, RequestsKnown
    <2>2. ASSUME FileRequest(req[c]) PROVE Known(req[c].id, desc[c][req[c].n].opened)'
      <3>1. req[c] \in Requests
        BY <2>2, StateParts DEF FInv, FileRequest
      <3>2. req[c].id \in Ids /\ req[c].n \in Fds
        BY <2>2, <3>1, RequestType DEF FileRequest
      <3>3. desc[c][req[c].n].opened \in Files \cup {Null}
        BY <3>2, StateParts, DescParts DEF FInv
      <3>4. Known(req[c].id, desc[c][req[c].n].opened)
        BY <2>2 DEF FInv, RequestsKnown
      <3> QED  BY <3>2, <3>3, <3>4
    <2> QED  BY <2>1, <2>2
  <1> QED  BY <1>1, <1>2 DEF FInv

(* The references to the page of an entry are finitely many. *)
LEMMA FiniteReferences ==
  ASSUME NEW k
  PROVE  IsFiniteSet({x \in Clients \X Fds :
                        desc[x[1]][x[2]].page = "entry" /\ desc[x[1]][x[2]].k = k})
  <1>1. IsFiniteSet(Fds)
    BY FS_Interval, FsServAssumption DEF Fds
  <1>2. IsFiniteSet(Clients \X Fds)
    BY <1>1, FS_Product, FsServAssumption
  <1> QED  BY <1>2, FS_Subset

(* openfile_alloc never finds an entry that a descriptor maps. *)
LEMMA NobodyMaps ==
  ASSUME FInv, NEW k \in Entries, IsOpenfileAlloc(k),
         NEW c \in Clients, NEW n \in Fds, desc[c][n].page = "entry"
  PROVE  desc[c][n].k # k
  <1> SUFFICES ASSUME desc[c][n].k = k PROVE FALSE
    OBVIOUS
  <1>1. PICK S : S = {x \in Clients \X Fds : desc[x[1]][x[2]].page = "entry" /\ desc[x[1]][x[2]].k = k}
    OBVIOUS
  <1>2. IsFiniteSet(S)
    BY <1>1, FiniteReferences
  <1>3. Cardinality(S) \in Nat /\ (Cardinality(S) = 0 <=> S = {})
    BY <1>2, FS_CardinalityType, FS_EmptySet
  <1>4. <<c, n>> \in S
    BY <1>1
  <1>5. k \in haspage
    BY DEF FInv, DescsGood, DescGood, Holds
  <1>6. Cardinality(S) + 1 <= 1
    BY <1>1, <1>5 DEF IsOpenfileAlloc, pageref
  <1> QED  BY <1>3, <1>4, <1>6

(* The client that is served waits. *)
LEMMA ServedWaits ==
  ASSUME FInv, NEW c \in Clients, serve(c)
  PROVE  /\ req[c] \in Requests /\ c # Null /\ UNCHANGED <<alive, desc, req>>
         /\ reply'.whom = c /\ srv' = "reply"
  <1>1. req[c] \in Requests /\ UNCHANGED <<alive, desc, req>>
    BY StateParts DEF FInv, serve
  <1>2. srv' = "reply" /\ \E ok, k, f : reply' = [whom |-> c, ok |-> ok, k |-> k, file |-> f]
    <2>1. CASE req[c].op = "open"
      BY <2>1 DEF serve, serve_open, OpenFails, OpenSucceeds, Answer
    <2>2. CASE req[c].op = "remove"
      BY <2>2 DEF serve, serve_remove, Answer
    <2>3. CASE req[c].op \notin {"open", "remove"}
      BY <2>3 DEF serve, serve_file, Answer
    <2> QED  BY <2>1, <2>2, <2>3
  <1> QED  BY <1>1, <1>2, FsServAssumption

(* An answer. *)
LEMMA AnswerType ==
  ASSUME NEW c \in Clients, NEW ok \in BOOLEAN, NEW k \in Entries \cup {Null},
         NEW f \in Files \cup {Null}, Answer(c, ok, k, f)
  PROVE  /\ reply' \in Replies /\ srv' = "reply" /\ reply'.whom = c
         /\ reply'.ok = ok /\ reply'.k = k /\ reply'.file = f
  BY DEF Answer, Replies

(* The server answers, and of the table at most the names change. *)
LEMMA TableKept ==
  ASSUME FInv, NEW c \in Clients, serve(c),
         UNCHANGED <<fileid, opens, ofile, haspage, fdpage>>,
         names' \in [Files -> Names \cup {NoName}], reply' \in Replies,
         reply'.ok => req[c].op # "open",
         reply'.ok /\ FileRequest(req[c]) => reply'.file = desc[c][req[c].n].opened
  PROVE  FInv'
  <1>1. /\ req[c] \in Requests /\ c # Null /\ UNCHANGED <<alive, desc, req>>
        /\ reply'.whom = c /\ srv' = "reply"
    BY ServedWaits
  <1>2. TypeOK'
    BY <1>1 DEF FInv, TypeOK
  <1>3. IdsCounted'
    BY DEF FInv, IdsCounted
  <1>4. \A d \in Clients, n \in Fds : DescGood(desc[d][n]) => DescGood(desc[d][n])'
    BY <1>1 DEF DescGood, Holds, Known
  <1>5. \A id \in Ids, f \in Files \cup {Null} : Known(id, f) => Known(id, f)'
    BY DEF Known
  <1>6. req[c] # Null
    BY DEF serve
  <1>7. ReplyPending'
    BY <1>1, <1>6 DEF ReplyPending
  <1>8. ServesOwnFile'
    BY <1>1, <1>6 DEF ServesOwnFile, FileRequest
  <1> QED  BY <1>1, <1>2, <1>3, <1>4, <1>5, <1>7, <1>8, ServerStep

(* serve_remove. *)
LEMMA ServeRemoveKeeps ==
  ASSUME FInv, NEW c \in Clients, serve(c), req[c].op = "remove"
  PROVE  FInv'
  <1>1. serve_remove(c)
    BY DEF serve
  <1>2. names' \in [Files -> Names \cup {NoName}]
    BY <1>1 DEF serve_remove, FInv, TypeOK
  <1>3. PICK ok \in BOOLEAN : Answer(c, ok, Null, Null)
    BY <1>1 DEF serve_remove
  <1>4. reply' \in Replies
    BY <1>3, AnswerType
  <1> QED  BY <1>1, <1>2, <1>4, TableKept, OpsDiffer DEF serve_remove, FileRequest

(* The handlers that look the id of the request up: an entry whose id it   *)
(* still is, is that of the file the descriptor was opened on.             *)
LEMMA ServeFileKeeps ==
  ASSUME FInv, NEW c \in Clients, serve(c), req[c].op \notin {"open", "remove"}
  PROVE  FInv'
  <1>1. serve_file(c) /\ req[c] \in Requests /\ req[c] # Null
    BY ServedWaits DEF serve
  <1>2. UNCHANGED <<fileid, opens, ofile, haspage, fdpage, names>>
    BY <1>1 DEF serve_file, tabVars
  <1>3. FileRequest(req[c])
    BY <1>1, RequestType DEF FileRequest
  <1>4. PICK id \in Ids : id = req[c].id
    BY <1>1, <1>3, RequestType DEF FileRequest
  <1>5. Known(id, desc[c][req[c].n].opened) /\ id[2] \in Entries
    BY <1>3, <1>4, IdParts DEF FInv, RequestsKnown
  <1>6. ofile[id[2]] \in Files \cup {Null} /\ Null \notin Entries
    BY <1>5, StateParts, FsServAssumption DEF FInv
  <1>7. reply' \in Replies /\ (reply'.ok => reply'.file = desc[c][req[c].n].opened)
    <2>1. CASE openfile_lookup(id) = Null
      BY <1>1, <1>4, <2>1, AnswerType DEF serve_file
    <2>2. CASE openfile_lookup(id) # Null
      <3>1. openfile_lookup(id) = id[2] /\ fileid[id[2]] = id
        BY <2>2 DEF openfile_lookup
      <3>2. Answer(c, TRUE, Null, ofile[id[2]])
        BY <1>1, <1>4, <2>2, <3>1 DEF serve_file
      <3> QED  BY <1>5, <1>6, <3>1, <3>2, AnswerType, ZenonT(60) DEF Known
    <2> QED  BY <2>1, <2>2
  <1>8. names' \in [Files -> Names \cup {NoName}]
    BY <1>2 DEF FInv, TypeOK
  <1> QED  BY <1>2, <1>7, <1>8, TableKept

(* openfile_alloc has found entry k: it has a new id, with a higher count  *)
(* than every id given out for it, and nobody maps its page.               *)
LEMMA AllocKeeps ==
  ASSUME FInv, NEW k \in Entries, IsOpenfileAlloc(k), opens < OpenBound, opens' = opens + 1,
         fileid' = [fileid EXCEPT ![k] = NextFileid(k)],
         haspage' = haspage \cup {k},
         ofile' \in [Entries -> Files \cup {Null}], fdpage' \in [Entries -> Fd],
         \A i \in Entries \ {k} : ofile'[i] = ofile[i] /\ fdpage'[i] = fdpage[i],
         UNCHANGED <<alive, desc, req>>
  PROVE  /\ opens' \in 0..OpenBound /\ fileid' \in [Entries -> Ids] /\ haspage' \subseteq Entries
         /\ fileid'[k] = NextFileid(k) /\ NextFileid(k) \in Ids
         /\ IdsCounted'
         /\ \A c \in Clients, n \in Fds : DescGood(desc[c][n]) => DescGood(desc[c][n])'
         /\ \A id \in Ids, f \in Files \cup {Null} : Known(id, f) => Known(id, f)'
  <1>1. /\ fileid \in [Entries -> Ids] /\ opens \in 0..OpenBound /\ haspage \subseteq Entries
        /\ OpenBound \in Nat
    BY FsServAssumption DEF FInv, TypeOK
  <1>2. fileid[k][1] \in 0..OpenBound /\ fileid[k][1] <= opens /\ fileid[k][2] = k
    BY <1>1, IdParts DEF FInv, IdsCounted
  <1>3. NextFileid(k) \in Ids /\ NextFileid(k)[1] = fileid[k][1] + 1 /\ NextFileid(k)[2] = k
    BY <1>1, <1>2 DEF NextFileid, Ids
  <1>4. PICK new \in Ids : new = NextFileid(k)
    BY <1>3
  <1>5. /\ fileid' \in [Entries -> Ids] /\ fileid'[k] = new
        /\ \A i \in Entries \ {k} : fileid'[i] = fileid[i]
    BY <1>1, <1>4
  <1>6. opens' \in 0..OpenBound /\ haspage' \subseteq Entries
    BY <1>1
  <1>7. IdsCounted'
    <2> SUFFICES ASSUME NEW i \in Entries
                 PROVE  fileid'[i][2] = i /\ fileid'[i][1] <= opens'
      BY DEF IdsCounted
    <2>1. fileid[i][2] = i /\ fileid[i][1] <= opens /\ fileid[i][1] \in 0..OpenBound
      BY <1>1, IdParts DEF FInv, IdsCounted
    <2>2. CASE i = k
      BY <1>1, <1>2, <1>3, <1>4, <1>5, <2>2
    <2>3. CASE i # k
      BY <1>1, <1>5, <2>1, <2>3
    <2> QED  BY <2>2, <2>3
  <1>8. ASSUME NEW id \in Ids, NEW f \in Files \cup {Null}, Known(id, f)
        PROVE  Known(id, f)'
    <2>1. id[1] \in 0..OpenBound /\ id[2] \in Entries
      BY IdParts
    <2>2. CASE id[2] = k
      <3>1. id[1] <= fileid[k][1]
        BY <1>8, <2>2 DEF Known
      <3>2. id[1] < new[1]
        BY <1>1, <1>2, <1>3, <1>4, <2>1, <3>1
      <3>3. id[1] <= new[1] /\ new # id
        BY <1>2, <1>3, <1>4, <2>1, <3>2
      <3> QED  BY <1>5, <2>2, <3>3 DEF Known
    <2>3. CASE id[2] # k
      BY <1>5, <1>8, <2>1, <2>3 DEF Known
    <2> QED  BY <2>2, <2>3
  <1>9. ASSUME NEW c \in Clients, NEW n \in Fds, DescGood(desc[c][n])
        PROVE  DescGood(desc[c][n])'
    <2>1. PICK x \in Desc : x = desc[c][n] /\ x = desc'[c][n] /\ DescGood(x)
      BY <1>9, StateParts DEF FInv
    <2>2. x.k \in Entries /\ x.fd.id \in Ids /\ x.opened \in Files \cup {Null}
      BY DescParts
    <2>3. x.page = "entry" => Holds(x.k, x.opened)'
      <3> SUFFICES ASSUME x.page = "entry" PROVE Holds(x.k, x.opened)'
        OBVIOUS
      <3>1. x.k # k
        BY <2>1, NobodyMaps
      <3> QED  BY <1>5, <2>1, <2>2, <3>1 DEF DescGood, Holds
    <2>4. x.page = "copy" => Known(x.fd.id, x.opened)'
      BY <1>8, <2>1, <2>2 DEF DescGood
    <2> QED  BY <2>1, <2>3, <2>4 DEF DescGood
  <1> QED  BY <1>3, <1>4, <1>5, <1>6, <1>7, <1>8, <1>9

(* serve_open. *)
LEMMA ServeOpenKeeps ==
  ASSUME FInv, NEW c \in Clients, serve(c), req[c].op = "open"
  PROVE  FInv'
  <1>1. serve_open(c) /\ req[c] # Null
    BY DEF serve
  <1>2. /\ req[c] \in Requests /\ c # Null /\ UNCHANGED <<alive, desc, req>>
        /\ reply'.whom = c /\ srv' = "reply"
    BY ServedWaits
  <1>3. req[c].name \in Names /\ req[c].mode \in Modes
    BY <1>2, RequestType
  <1>4. ~FileRequest(req[c])
    BY OpsDiffer DEF FileRequest
  <1>5. CASE OpenFails(c) /\ UNCHANGED <<fileid, opens, haspage, fdpage>>
    <2>1. reply' \in Replies /\ ~reply'.ok
      BY <1>5, AnswerType DEF OpenFails
    <2>2. names' \in [Files -> Names \cup {NoName}] /\ UNCHANGED ofile
      BY <1>5 DEF OpenFails, FInv, TypeOK
    <2> QED  BY <1>5, <2>1, <2>2, TableKept
  <1>6. CASE \E k \in Entries : IsOpenfileAlloc(k) /\ opens < OpenBound /\ opens' = opens + 1
    <2>0. TypeOK
      BY DEF FInv
    <2>1. ~UNCHANGED opens
      BY <1>6, <2>0, FsServAssumption DEF TypeOK
    <2>2. PICK k \in Entries :
            /\ IsOpenfileAlloc(k) /\ opens < OpenBound /\ opens' = opens + 1
            /\ fileid' = [fileid EXCEPT ![k] = NextFileid(k)]
            /\ haspage' = haspage \cup {k}
            /\ \/ OpenFails(c) /\ fdpage' = [fdpage EXCEPT ![k] = Zeroed]
               \/ /\ \E f \in Files : OpenSucceeds(c, k, f)
                  /\ fdpage' = [fdpage EXCEPT ![k] =
                                  [dev |-> TRUE, id |-> NextFileid(k), mode |-> req[c].mode]]
      BY <1>1, <2>1 DEF serve_open, NamedFile, FreeFile
    <2>3. NextFileid(k) \in Ids
      BY <2>2, <2>0, IdParts, FsServAssumption DEF FInv, IdsCounted, NextFileid, Ids, TypeOK
    <2>4. CASE OpenFails(c) /\ fdpage' = [fdpage EXCEPT ![k] = Zeroed]
      <3>1. reply' \in Replies /\ ~reply'.ok /\ UNCHANGED <<ofile, names>>
        BY <2>4, AnswerType DEF OpenFails
      <3>2. /\ ofile' \in [Entries -> Files \cup {Null}] /\ fdpage' \in [Entries -> Fd]
            /\ \A i \in Entries \ {k} : ofile'[i] = ofile[i] /\ fdpage'[i] = fdpage[i]
        BY <2>0, <2>4, <3>1, UnmappedType DEF TypeOK
      <3>3. /\ opens' \in 0..OpenBound /\ fileid' \in [Entries -> Ids] /\ haspage' \subseteq Entries
            /\ IdsCounted'
            /\ \A d \in Clients, n \in Fds : DescGood(desc[d][n]) => DescGood(desc[d][n])'
            /\ \A id \in Ids, f \in Files \cup {Null} : Known(id, f) => Known(id, f)'
        BY <1>2, <2>2, <3>2, AllocKeeps
      <3>4. TypeOK'
        BY <1>2, <2>0, <3>1, <3>2, <3>3 DEF TypeOK
      <3>5. ReplyPending' /\ ServesOwnFile'
        BY <1>1, <1>2, <3>1 DEF ReplyPending, ServesOwnFile
      <3> QED  BY <1>2, <3>3, <3>4, <3>5, ServerStep
    <2>5. CASE /\ \E f \in Files : OpenSucceeds(c, k, f)
               /\ fdpage' = [fdpage EXCEPT ![k] =
                               [dev |-> TRUE, id |-> NextFileid(k), mode |-> req[c].mode]]
      <3>1. PICK f \in Files : OpenSucceeds(c, k, f)
        BY <2>5
      <3>2. PICK p : p = [dev |-> TRUE, id |-> NextFileid(k), mode |-> req[c].mode]
        OBVIOUS
      <3>3. p \in Fd /\ p.dev /\ p.id = NextFileid(k)
        BY <1>3, <2>3, <3>2 DEF Fd
      <3>4. /\ reply' \in Replies /\ reply'.ok /\ reply'.k = k /\ reply'.file = f
            /\ ofile' = [ofile EXCEPT ![k] = f] /\ names' = [names EXCEPT ![f] = req[c].name]
        BY <3>1, AnswerType DEF OpenSucceeds
      <3>5. /\ ofile' \in [Entries -> Files \cup {Null}] /\ fdpage' \in [Entries -> Fd]
            /\ \A i \in Entries \ {k} : ofile'[i] = ofile[i] /\ fdpage'[i] = fdpage[i]
            /\ ofile'[k] = f /\ fdpage'[k] = p
        BY <2>0, <2>5, <3>2, <3>3, <3>4 DEF TypeOK
      <3>6. /\ opens' \in 0..OpenBound /\ fileid' \in [Entries -> Ids] /\ haspage' \subseteq Entries
            /\ IdsCounted' /\ fileid'[k] = NextFileid(k)
            /\ \A d \in Clients, n \in Fds : DescGood(desc[d][n]) => DescGood(desc[d][n])'
            /\ \A id \in Ids, g \in Files \cup {Null} : Known(id, g) => Known(id, g)'
        BY <1>2, <2>2, <3>5, AllocKeeps
      <3>7. names' \in [Files -> Names \cup {NoName}]
        BY <1>3, <2>0, <3>4 DEF TypeOK
      <3>8. TypeOK'
        BY <1>2, <2>0, <3>4, <3>5, <3>6, <3>7 DEF TypeOK
      <3>9. Holds(k, f)'
        BY <2>2, <3>3, <3>5, <3>6 DEF Holds
      <3>10. ReplyPending'
        BY <1>1, <1>2, <3>4, <3>9 DEF ReplyPending
      <3>11. ServesOwnFile'
        BY <1>1, <1>2, <1>4 DEF ServesOwnFile, FileRequest
      <3> QED  BY <1>2, <3>6, <3>8, <3>10, <3>11, ServerStep
    <2> QED  BY <2>2, <2>4, <2>5
  <1> QED  BY <1>1, <1>5, <1>6 DEF serve_open

(* The reply reaches the client, or finds it gone. *)
LEMMA ReplyKeeps ==
  ASSUME FInv, Reply
  PROVE  FInv'
  <1>1. /\ UNCHANGED <<fileid, opens, ofile, haspage, fdpage, names, alive>>
        /\ srv = "reply" /\ reply' = NoReply
    BY DEF Reply, tabVars
  <1>2. reply' \in Replies /\ reply'.whom = Null
    BY <1>1 DEF NoReply, Replies
  <1>3. TypeOK
    BY DEF FInv
  <1>4. SUFFICES /\ desc' \in [Clients -> [Fds -> Desc]]
                 /\ req' \in [Clients -> Requests \cup {Null}]
                 /\ srv' \in {"recv", "down"}
                 /\ \A d \in Clients, n \in Fds : DescGood(desc'[d][n])
                 /\ \A d \in Clients :
                      req'[d] # Null => req'[d] = req[d] /\ desc'[d] = desc[d]
    <2>1. TypeOK'
      BY <1>1, <1>2, <1>3, <1>4 DEF TypeOK
    <2>2. IdsCounted'
      BY <1>1 DEF FInv, IdsCounted
    <2>3. DescsGood'
      BY <1>1, <1>4, SMTT(30) DEF DescsGood, DescGood, Holds, Known
    <2>4. RequestsKnown'
      BY <1>1, <1>4 DEF FInv, RequestsKnown, FileRequest, Known
    <2>5. ReplyPending' /\ ServesOwnFile'
      BY <1>2 DEF ReplyPending, ServesOwnFile
    <2> QED  BY <2>1, <2>2, <2>3, <2>4, <2>5 DEF FInv
  <1>5. CASE reply.whom = Null
    <2>1. UNCHANGED <<desc, req>> /\ srv' = "down"
      BY <1>5 DEF Reply
    <2> QED  BY <1>3, <2>1 DEF FInv, DescsGood, TypeOK
  <1>6. CASE reply.whom # Null
    <2>1. PICK c \in Clients : c = reply.whom
      BY <1>3, <1>6 DEF TypeOK, Replies
    <2>2. /\ req[c] # Null /\ srv' = "recv" /\ req' = [req EXCEPT ![c] = Null]
      BY <1>6, <2>1 DEF FInv, ReplyPending, Reply
    <2>3. req[c] \in Requests
      BY <1>3, <2>2, StateParts
    <2>4. /\ req' \in [Clients -> Requests \cup {Null}] /\ req'[c] = Null
          /\ \A d \in Clients \ {c} : req'[d] = req[d]
      BY <1>3, <2>2 DEF TypeOK
    <2>5. UNCHANGED desc \/ \E n \in Fds, x \in Desc : DescGood(x) /\ desc' = [desc EXCEPT ![c][n] = x]
      <3>1. CASE req[c].op = "open" /\ reply.ok
        <4>1. req[c].n \in Fds /\ reply.k \in Entries /\ reply.file \in Files /\ Holds(reply.k, reply.file)
          BY <1>6, <2>1, <2>3, <3>1, RequestType DEF FInv, ReplyPending
        <4>2. PICK x : x = [Unmapped EXCEPT !.page = "entry", !.k = reply.k, !.opened = reply.file]
          OBVIOUS
        <4>3. x \in Desc /\ x.page = "entry" /\ x.k = reply.k /\ x.opened = reply.file
          BY <4>1, <4>2, UnmappedType DEF Desc
        <4>4. DescGood(x)
          BY <4>1, <4>3 DEF DescGood
        <4>5. desc' = [desc EXCEPT ![c][req[c].n] = x]
          BY <1>6, <2>1, <3>1, <4>2 DEF Reply
        <4> QED  BY <4>1, <4>3, <4>4, <4>5
      <3>2. CASE req[c].op = "flush"
        <4>1. req[c].n \in Fds /\ req[c].dup \in Fds \cup {Null}
          BY <2>3, <3>2, RequestType
        <4>2. PICK x : x = IF req[c].dup = Null THEN Unmapped ELSE desc[c][req[c].dup]
          OBVIOUS
        <4>3. x \in Desc /\ DescGood(x)
          BY <1>3, <4>1, <4>2, UnmappedType, StateParts DEF FInv, DescsGood, DescGood
        <4>4. desc' = [desc EXCEPT ![c][req[c].n] = x]
          BY <1>6, <2>1, <3>2, <4>2 DEF Reply
        <4> QED  BY <4>1, <4>3, <4>4
      <3>3. CASE ~(req[c].op = "open" /\ reply.ok) /\ req[c].op # "flush"
        BY <1>6, <2>1, <3>3 DEF Reply
      <3> QED  BY <3>1, <3>2, <3>3
    <2>6. CASE UNCHANGED desc
      BY <1>3, <2>2, <2>4, <2>6 DEF FInv, DescsGood, TypeOK
    <2>7. CASE \E n \in Fds, x \in Desc : DescGood(x) /\ desc' = [desc EXCEPT ![c][n] = x]
      <3>1. PICK n \in Fds, x \in Desc : DescGood(x) /\ desc' = [desc EXCEPT ![c][n] = x]
        BY <2>7
      <3>2. /\ desc' \in [Clients -> [Fds -> Desc]]
            /\ \A d \in Clients \ {c} : desc'[d] = desc[d]
            /\ desc'[c][n] = x /\ \A m \in Fds \ {n} : desc'[c][m] = desc[c][m]
        BY <1>3, <3>1 DEF TypeOK
      <3>3. \A d \in Clients, m \in Fds : DescGood(desc'[d][m])
        BY <3>1, <3>2 DEF FInv, DescsGood
      <3> QED  BY <2>2, <2>4, <3>2, <3>3
    <2> QED  BY <2>5, <2>6, <2>7
  <1> QED  BY <1>5, <1>6

-----------------------------------------------------------------------------
(* The theorems. *)

(* Initially nothing is open. *)
LEMMA InitHolds == Init => FInv
  <1> SUFFICES ASSUME Init PROVE FInv
    OBVIOUS
  <1>1. \A k \in Entries : <<0, k>> \in Ids /\ <<0, k>>[1] = 0 /\ <<0, k>>[2] = k
    BY FsServAssumption DEF Ids
  <1>2. TypeOK
    <2>1. fileid \in [Entries -> Ids] /\ opens \in 0..OpenBound /\ ofile \in [Entries -> Files \cup {Null}]
      BY <1>1, FsServAssumption DEF Init
    <2>2. haspage \subseteq Entries /\ fdpage \in [Entries -> Fd]
      BY UnmappedType DEF Init
    <2>3. names \in [Files -> Names \cup {NoName}] /\ alive \subseteq Clients
      BY DEF Init
    <2>4. desc \in [Clients -> [Fds -> Desc]] /\ req \in [Clients -> Requests \cup {Null}]
      BY UnmappedType DEF Init
    <2>5. srv \in {"recv", "reply", "down"} /\ reply \in Replies
      BY DEF Init, NoReply, Replies
    <2> QED  BY <2>1, <2>2, <2>3, <2>4, <2>5 DEF TypeOK
  <1>3. IdsCounted
    BY <1>1 DEF Init, IdsCounted
  <1>4. DescsGood
    BY UnmappedType DEF Init, DescsGood, DescGood
  <1>5. RequestsKnown
    BY DEF Init, RequestsKnown, FileRequest
  <1>6. ReplyPending /\ ServesOwnFile
    BY DEF Init, ReplyPending, ServesOwnFile, NoReply
  <1> QED  BY <1>2, <1>3, <1>4, <1>5, <1>6 DEF FInv

(* Every step keeps the invariant. *)
LEMMA NextKeeps == FInv /\ [Next]_vars => FInv'
  <1> SUFFICES ASSUME FInv, [Next]_vars PROVE FInv'
    OBVIOUS
  <1>1. CASE UNCHANGED vars
    <2>1. /\ UNCHANGED <<fileid, opens, ofile, haspage, fdpage, names>>
          /\ UNCHANGED <<alive, desc, req, srv, reply>>
      BY <1>1 DEF vars, tabVars, srvVars
    <2> QED  BY <2>1, SMTT(30) DEF FInv, TypeOK, IdsCounted, DescsGood, DescGood, Holds, Known,
                         RequestsKnown, FileRequest, ReplyPending, ServesOwnFile
  <1>2. ASSUME NEW c \in Clients, serve(c) PROVE FInv'
    BY <1>2, ServeOpenKeeps, ServeRemoveKeeps, ServeFileKeeps
  <1>3. CASE Next
    BY <1>2, <1>3, OpenKeeps, RemoveKeeps, UseKeeps, CloseKeeps, DupKeeps, SeekKeeps,
       ForkKeeps, DestroyKeeps, ReplyKeeps DEF Next
  <1> QED  BY <1>1, <1>3

(* The inductive invariant holds in every state of every behaviour. *)
THEOREM Invariance == Spec => []FInv
  BY InitHolds, NextKeeps, PTL DEF Spec

(* Every variable keeps its type: in particular no file id leaves its      *)
(* range, and every reply is for a client or for nobody.                   *)
THEOREM TypeCorrect == Spec => []TypeOK
  <1>1. FInv => TypeOK
    BY DEF FInv
  <1> QED  BY <1>1, Invariance, PTL

(* openfile_alloc (fs/serv.c) never takes an entry that a client has open: *)
(* while a descriptor maps the page of an entry, whatever the clients and  *)
(* however many entries, descriptors and files there are, the entry is     *)
(* that of the file the descriptor was opened on.                          *)
THEOREM EntriesHeld == Spec => []EntryHeld
  <1>1. FInv => EntryHeld
    BY DEF FInv, DescsGood, DescGood, Holds, EntryHeld
  <1> QED  BY <1>1, Invariance, PTL

(* No request on a descriptor is carried out on another file than the one  *)
(* the descriptor was opened on, also when its struct Fd is a stale copy   *)
(* (openfile_lookup, fs/serv.c).                                           *)
THEOREM RequestsServedRight == Spec => []ServesOwnFile
  <1>1. FInv => ServesOwnFile
    BY DEF FInv
  <1> QED  BY <1>1, Invariance, PTL
=============================================================================
