--------------------------- MODULE Network_proof ---------------------------
(***************************************************************************)
(* The two network programs of 2.3.1-coroutine-main.                       *)
(*                                                                         *)
(* The asynchronous DNS client for any number of requests and descriptors. *)
(* RegisteredOpen and DnsReleases follow from DnsInv, whose core says who  *)
(* may use a socket: a socket belongs to one request; a request that was   *)
(* called back only keeps its socket while the poller cleans up after it   *)
(* (SocketsOK); a request that is being committed is not registered yet,   *)
(* so that the poller cannot touch its socket (CommitterOK).               *)
(*                                                                         *)
(* The work queue for any number of workers and jobs: JobListSound is      *)
(* inductive once idle workers are known to hold no job.                   *)
(***************************************************************************)
EXTENDS DnsClient, WorkQueue, FiniteSetTheorems, TLAPS

Handling == poller.pc \in {"del", "close", "free"}
Committing == committer.pc \in {"send", "arg", "add"}

Registrations == [fd : Fds, req : Requests]

DnsTypeOK ==
  /\ todo \subseteq Requests /\ eparg \subseteq Requests
  /\ sock \in [Fds -> Requests \cup {Nobody}]
  /\ epolled \subseteq Registrations /\ events \subseteq epolled
  /\ committer \in [pc : {"next", "send", "arg", "add", "exited"},
                    req : Requests \cup {Nobody}, fd : Fds \cup {Nobody}]
  /\ Committing => committer.req \in Requests /\ committer.fd \in Fds
  /\ poller \in [pc : {"wait", "event", "del", "close", "free"},
                 req : Requests \cup {Nobody}, fd : Fds \cup {Nobody}]
  /\ Handling => poller.req \in Requests /\ poller.fd \in Fds
  /\ called \in [Requests -> Nat]

(* A callback is made once at most, and never for what is still to do.     *)
CallsOK == \A r \in Requests : called[r] \in {0, 1} /\ (r \in todo => called[r] = 0)

SocketsOK ==
  /\ \A f, g \in Fds : sock[f] = sock[g] /\ sock[f] # Nobody => f = g
  /\ \A f \in Fds : sock[f] # Nobody =>
       /\ sock[f] \notin todo
       /\ called[sock[f]] = 0 \/ (poller.pc \in {"del", "close"} /\ poller.fd = f)
  /\ \A r \in Requests \ todo : called[r] = 0 => \E f \in Fds : sock[f] = r

RegistrationsOK ==
  /\ \A e \in epolled : sock[e.fd] = e.req /\ e.req \in eparg
  /\ \A e \in events : Handling => e.fd # poller.fd
  /\ \A r \in eparg : r \notin todo /\ (called[r] = 0 \/ (Handling /\ poller.req = r))

PollerOK ==
  /\ Handling => poller.req \notin todo /\ called[poller.req] = 1
  /\ poller.pc \in {"del", "close"} => sock[poller.fd] = poller.req

CommitterOK ==
  Committing =>
    /\ committer.req \notin todo /\ called[committer.req] = 0
    /\ sock[committer.fd] = committer.req
    /\ committer.pc = "add" => committer.req \in eparg
    /\ \A e \in epolled : e.req # committer.req

DnsInv == DnsTypeOK /\ CallsOK /\ SocketsOK /\ RegistrationsOK /\ PollerOK /\ CommitterOK

-----------------------------------------------------------------------------
LEMMA DnsInitInv == DnsInit => DnsInv
<1> SUFFICES ASSUME DnsInit PROVE DnsInv
  OBVIOUS
<1>1. committer.pc = "next" /\ poller.pc = "wait"
  BY DEF DnsInit
<1>2. DnsTypeOK
  BY DEF DnsInit, DnsTypeOK, Handling, Committing
<1>3. CallsOK /\ SocketsOK /\ RegistrationsOK
  BY DEF DnsInit, CallsOK, SocketsOK, RegistrationsOK
<1>4. PollerOK /\ CommitterOK
  BY <1>1 DEF PollerOK, CommitterOK, Handling, Committing
<1> QED
  BY <1>2, <1>3, <1>4 DEF DnsInv

(* A registration is known by its two fields.                              *)
LEMMA SameRegistration ==
  ASSUME NEW d \in Registrations, NEW e \in Registrations, d.fd = e.fd, d.req = e.req
  PROVE  d = e
  BY DEF Registrations

(* The network and main at rest touch nothing the invariant speaks of.     *)
LEMMA DnsFrame ==
  ASSUME DnsInv,
         UNCHANGED <<todo, sock, epolled, eparg, committer, poller, events, called>>
  PROVE  DnsInv'
  BY DEF DnsInv, DnsTypeOK, CallsOK, SocketsOK, RegistrationsOK, PollerOK, CommitterOK,
         Handling, Committing

(* A step of main that only moves its program counter, or allocates the    *)
(* ep_arg of its request.                                                  *)
LEMMA CommitterMoves ==
  ASSUME DnsInv, NEW b \in {"next", "arg", "add", "exited"},
         committer' = [committer EXCEPT !.pc = b],
         UNCHANGED <<todo, sock, epolled, poller, events, called>>,
         \/ eparg' = eparg /\ b \in {"next", "exited"}
         \/ eparg' = eparg /\ Committing /\ b = "arg"
         \/ eparg' = eparg \cup {committer.req} /\ Committing /\ b = "add"
  PROVE  DnsInv'
<1>1. committer'.pc = b /\ committer'.req = committer.req /\ committer'.fd = committer.fd
  BY DEF DnsInv, DnsTypeOK
<1>2. committer' \in [pc : {"next", "send", "arg", "add", "exited"},
                      req : Requests \cup {Nobody}, fd : Fds \cup {Nobody}]
  BY DEF DnsInv, DnsTypeOK
<1>3. DnsTypeOK'
  BY <1>1, <1>2 DEF DnsInv, DnsTypeOK, Handling, Committing
<1>4. CallsOK' /\ SocketsOK' /\ PollerOK'
  BY DEF DnsInv, CallsOK, SocketsOK, PollerOK, Handling
<1>5. RegistrationsOK'
  BY DEF DnsInv, RegistrationsOK, CommitterOK, Handling
<1>6. CommitterOK'
  BY <1>1 DEF DnsInv, CommitterOK, Committing
<1> QED
  BY <1>3, <1>4, <1>5, <1>6 DEF DnsInv

(* The kernel gives main a descriptor that nobody else has.                *)
LEMMA CommitSocket ==
  ASSUME DnsInv, commit_socket
  PROVE  DnsInv'
<1>1. PICK r \in todo, f \in {g \in Fds : sock[g] = Nobody} :
        /\ todo' = todo \ {r} /\ sock' = [sock EXCEPT ![f] = r]
        /\ committer' = [pc |-> "send", req |-> r, fd |-> f]
  BY DEF commit_socket
<1>2. UNCHANGED <<epolled, eparg, poller, events, called>>
  BY DEF commit_socket
<1>3. /\ r \in Requests /\ r # Nobody /\ called[r] = 0 /\ f \in Fds /\ sock[f] = Nobody
      /\ \A g \in Fds : sock'[g] = IF g = f THEN r ELSE sock[g]
      /\ \A g \in Fds : sock[g] # r
  BY <1>1, DnsAssumption DEF DnsInv, DnsTypeOK, CallsOK, SocketsOK
<1>4. DnsTypeOK'
  BY <1>1, <1>2, <1>3 DEF DnsInv, DnsTypeOK, Handling, Committing
<1>5. CallsOK'
  BY <1>1, <1>2 DEF DnsInv, CallsOK
<1>6. SocketsOK'
  <2>1. \A g, h \in Fds : sock'[g] = sock'[h] /\ sock'[g] # Nobody => g = h
    BY <1>3 DEF DnsInv, SocketsOK
  <2>2. ASSUME NEW g \in Fds, sock'[g] # Nobody
        PROVE  /\ sock'[g] \notin todo'
               /\ called'[sock'[g]] = 0 \/ (poller'.pc \in {"del", "close"} /\ poller'.fd = g)
    BY <1>1, <1>2, <1>3, <2>2 DEF DnsInv, SocketsOK
  <2>3. ASSUME NEW q \in Requests \ todo', called[q] = 0
        PROVE  \E g \in Fds : sock'[g] = q
    <3>1. CASE q = r
      BY <1>3, <3>1
    <3>2. CASE q # r
      <4>1. PICK g \in Fds : sock[g] = q
        BY <1>1, <2>3, <3>2 DEF DnsInv, SocketsOK
      <4>2. g # f
        BY <1>3, <2>3, <4>1, DnsAssumption
      <4> QED BY <1>3, <4>1, <4>2
    <3> QED BY <3>1, <3>2
  <2> QED BY <1>2, <2>1, <2>2, <2>3 DEF SocketsOK
<1>7. ASSUME NEW e \in epolled
      PROVE  e.fd \in Fds /\ e.fd # f /\ e.req # r
  <2>1. e.fd \in Fds /\ e.req \in Requests /\ sock[e.fd] = e.req
    BY DEF DnsInv, DnsTypeOK, RegistrationsOK, Registrations
  <2> QED BY <1>3, <2>1, DnsAssumption
<1>8. RegistrationsOK'
  BY <1>1, <1>2, <1>3, <1>7 DEF DnsInv, RegistrationsOK, Handling
<1>9. PollerOK'
  BY <1>1, <1>2, <1>3, DnsAssumption DEF DnsInv, DnsTypeOK, PollerOK, Handling
<1>10. CommitterOK'
  BY <1>1, <1>2, <1>3, <1>7 DEF CommitterOK
<1> QED
  BY <1>4, <1>5, <1>6, <1>8, <1>9, <1>10 DEF DnsInv

LEMMA CommitAdd ==
  ASSUME DnsInv, commit_add
  PROVE  DnsInv'
<1> DEFINE e == [fd |-> committer.fd, req |-> committer.req]
<1>1. /\ committer.pc = "add" /\ committer' = [committer EXCEPT !.pc = "next"]
      /\ epolled' = epolled \cup {e}
      /\ UNCHANGED <<todo, sock, eparg, poller, events, called>>
  BY DEF commit_add, Commits
<1>2. committer' \in [pc : {"next", "send", "arg", "add", "exited"},
                      req : Requests \cup {Nobody}, fd : Fds \cup {Nobody}]
      /\ committer'.pc = "next"
  BY <1>1 DEF DnsInv, DnsTypeOK
<1>3. e \in Registrations /\ sock[e.fd] = e.req /\ e.req \in eparg
  BY <1>1 DEF DnsInv, DnsTypeOK, CommitterOK, Committing, Registrations
<1>4. DnsTypeOK'
  BY <1>1, <1>2, <1>3 DEF DnsInv, DnsTypeOK, Handling, Committing
<1>5. CallsOK' /\ SocketsOK' /\ PollerOK'
  BY <1>1 DEF DnsInv, CallsOK, SocketsOK, PollerOK, Handling
<1>6. RegistrationsOK'
  BY <1>1, <1>3 DEF DnsInv, RegistrationsOK, Handling
<1>7. CommitterOK'
  BY <1>2 DEF CommitterOK, Committing
<1> QED
  BY <1>4, <1>5, <1>6, <1>7 DEF DnsInv

LEMMA CommitterInv ==
  ASSUME DnsInv, Committer
  PROVE  DnsInv'
<1>1. CASE commit_no_socket
  BY <1>1, CommitterMoves DEF commit_no_socket, Commits, kernelvars
<1>2. CASE commit_sendto
  BY <1>2, CommitterMoves DEF commit_sendto, Commits, Committing
<1>3. CASE commit_arg
  BY <1>3, CommitterMoves DEF commit_arg, Commits, Committing, kernelvars
<1>4. CASE commit_no_arg \/ commit_add_fails
  BY <1>4, CommitterMoves DEF commit_no_arg, commit_add_fails, Commits, kernelvars
<1> QED
  BY <1>1, <1>2, <1>3, <1>4, CommitSocket, CommitAdd DEF Committer

-----------------------------------------------------------------------------
(* dns_async_client_proc.                                                  *)

PollerRecords == [pc : {"wait", "event", "del", "close", "free"},
                  req : Requests \cup {Nobody}, fd : Fds \cup {Nobody}]

LEMMA ProcWait ==
  ASSUME DnsInv, proc_wait
  PROVE  DnsInv'
<1>1. /\ poller.pc = "wait" /\ poller' = [poller EXCEPT !.pc = "event"]
      /\ events' \subseteq epolled
      /\ UNCHANGED <<todo, sock, epolled, eparg, committer, called>>
  BY DEF proc_wait, kernelvars
<1>2. poller' \in PollerRecords /\ poller'.pc = "event"
  BY <1>1 DEF DnsInv, DnsTypeOK, PollerRecords
<1>3. ~Handling /\ ~Handling'
  BY <1>1, <1>2 DEF Handling
<1>4. DnsTypeOK'
  BY <1>1, <1>2, <1>3 DEF DnsInv, DnsTypeOK, PollerRecords, Committing
<1>5. CallsOK' /\ SocketsOK' /\ PollerOK'
  BY <1>1, <1>2, <1>3 DEF DnsInv, CallsOK, SocketsOK, PollerOK
<1>6. RegistrationsOK' /\ CommitterOK'
  BY <1>1, <1>3 DEF DnsInv, RegistrationsOK, CommitterOK, Committing
<1> QED
  BY <1>4, <1>5, <1>6 DEF DnsInv

(* The request of an event was not called back before, and is not the one  *)
(* that main commits.                                                      *)
LEMMA ProcEvent ==
  ASSUME DnsInv, proc_event
  PROVE  DnsInv'
<1>1. PICK e \in events : /\ poller' = [pc |-> "del", req |-> e.req, fd |-> e.fd]
                          /\ called' = [called EXCEPT ![e.req] = @ + 1]
                          /\ events' = events \ {e}
  BY DEF proc_event
<1>2. poller.pc = "event" /\ UNCHANGED <<todo, sock, epolled, eparg, committer>>
  BY DEF proc_event
<1>3. PICK f \in Fds, r \in Requests : f = e.fd /\ r = e.req
  BY DEF DnsInv, DnsTypeOK, Registrations
<1>4. ~Handling /\ Handling' /\ poller'.pc = "del" /\ poller'.req = r /\ poller'.fd = f
  BY <1>1, <1>2, <1>3 DEF Handling
<1>5. e \in epolled /\ sock[f] = r /\ r # Nobody
  BY <1>3, DnsAssumption DEF DnsInv, DnsTypeOK, RegistrationsOK
<1>6. called[r] = 0 /\ r \notin todo
  BY <1>2, <1>5 DEF DnsInv, SocketsOK
<1>7. \A q \in Requests : called'[q] = IF q = r THEN 1 ELSE called[q]
  BY <1>1, <1>3, <1>6 DEF DnsInv, DnsTypeOK
<1>8. DnsTypeOK'
  <2>1. called' \in [Requests -> Nat]
    BY <1>1, <1>3 DEF DnsInv, DnsTypeOK
  <2> QED BY <1>1, <1>2, <1>3, <1>4, <2>1 DEF DnsInv, DnsTypeOK, Committing
<1>9. CallsOK'
  BY <1>2, <1>6, <1>7 DEF DnsInv, CallsOK
<1>10. SocketsOK'
  BY <1>2, <1>4, <1>5, <1>7 DEF DnsInv, DnsTypeOK, SocketsOK
<1>11. \A d \in events' : d.fd # f
  <2> SUFFICES ASSUME NEW d \in events, d.fd = f PROVE d = e
    BY <1>1
  <2>1. d \in Registrations /\ e \in Registrations /\ sock[d.fd] = d.req
    BY DEF DnsInv, DnsTypeOK, RegistrationsOK
  <2> QED BY <1>3, <1>5, <2>1, SameRegistration
<1>12. RegistrationsOK'
  BY <1>2, <1>4, <1>7, <1>11 DEF DnsInv, DnsTypeOK, RegistrationsOK
<1>13. PollerOK'
  BY <1>2, <1>4, <1>5, <1>6, <1>7 DEF PollerOK
<1>14. CommitterOK'
  BY <1>2, <1>3, <1>5, <1>7 DEF DnsInv, DnsTypeOK, CommitterOK, Committing
<1> QED
  BY <1>8, <1>9, <1>10, <1>12, <1>13, <1>14 DEF DnsInv

(* epoll_ctl(EPOLL_CTL_DEL) of the descriptor that was handled.            *)
LEMMA ProcDel ==
  ASSUME DnsInv, poller.pc = "del", poller' = [poller EXCEPT !.pc = "close"],
         epoll_del(poller.fd), UNCHANGED <<todo, eparg, committer, events, called>>
  PROVE  DnsInv'
<1>1. /\ poller' \in PollerRecords /\ poller'.pc = "close"
      /\ poller'.req = poller.req /\ poller'.fd = poller.fd
  BY DEF DnsInv, DnsTypeOK, PollerRecords
<1>2. epolled' = {e \in epolled : e.fd # poller.fd} /\ sock' = sock
  BY DEF epoll_del
<1>3. Handling /\ Handling'
  BY <1>1 DEF Handling
<1>4. events \subseteq epolled'
  BY <1>2, <1>3 DEF DnsInv, DnsTypeOK, RegistrationsOK
<1>5. DnsTypeOK'
  BY <1>1, <1>2, <1>3, <1>4 DEF DnsInv, DnsTypeOK, PollerRecords, Committing
<1>6. CallsOK' /\ SocketsOK' /\ PollerOK'
  BY <1>1, <1>2, <1>3 DEF DnsInv, CallsOK, SocketsOK, PollerOK
<1>7. RegistrationsOK' /\ CommitterOK'
  BY <1>1, <1>2, <1>3 DEF DnsInv, RegistrationsOK, CommitterOK, Committing
<1> QED
  BY <1>5, <1>6, <1>7 DEF DnsInv

(* close: the descriptor is main's to use again, the request is done.      *)
LEMMA ProcClose ==
  ASSUME DnsInv, poller.pc = "close", poller' = [poller EXCEPT !.pc = "free"],
         close(poller.fd), UNCHANGED <<todo, eparg, committer, events, called>>
  PROVE  DnsInv'
<1>1. /\ poller' \in PollerRecords /\ poller'.pc = "free"
      /\ poller'.req = poller.req /\ poller'.fd = poller.fd
  BY DEF DnsInv, DnsTypeOK, PollerRecords
<1>2. PICK f \in Fds, r \in Requests : f = poller.fd /\ r = poller.req
  BY DEF DnsInv, DnsTypeOK, Handling
<1>3. /\ epolled' = {e \in epolled : e.fd # f} /\ sock' = [sock EXCEPT ![f] = Nobody]
      /\ \A g \in Fds : sock'[g] = IF g = f THEN Nobody ELSE sock[g]
  BY <1>2 DEF close, DnsInv, DnsTypeOK
<1>4. Handling /\ Handling' /\ called[r] = 1 /\ sock[f] = r /\ r \notin todo
  BY <1>1, <1>2 DEF Handling, DnsInv, PollerOK
<1>5. events \subseteq epolled'
  BY <1>2, <1>3, <1>4 DEF DnsInv, DnsTypeOK, RegistrationsOK
<1>6. DnsTypeOK'
  BY <1>1, <1>3, <1>4, <1>5 DEF DnsInv, DnsTypeOK, PollerRecords, Committing
<1>7. CallsOK'
  BY DEF DnsInv, CallsOK
<1>8. SocketsOK'
  <2>1. \A g, h \in Fds : sock'[g] = sock'[h] /\ sock'[g] # Nobody => g = h
    BY <1>3 DEF DnsInv, SocketsOK
  <2>2. ASSUME NEW g \in Fds, sock'[g] # Nobody
        PROVE  sock'[g] \notin todo /\ called[sock'[g]] = 0
    BY <1>2, <1>3, <2>2 DEF DnsInv, SocketsOK
  <2>3. ASSUME NEW q \in Requests \ todo, called[q] = 0
        PROVE  \E g \in Fds : sock'[g] = q
    BY <1>3, <1>4, <2>3 DEF DnsInv, SocketsOK
  <2> QED BY <2>1, <2>2, <2>3 DEF SocketsOK
<1>9. RegistrationsOK'
  <2>1. ASSUME NEW e \in epolled' PROVE sock'[e.fd] = e.req /\ e.req \in eparg
    BY <1>3, <2>1 DEF DnsInv, DnsTypeOK, RegistrationsOK, Registrations
  <2> QED BY <1>1, <1>4, <2>1 DEF DnsInv, RegistrationsOK
<1>10. PollerOK'
  BY <1>1, <1>2, <1>4 DEF PollerOK
<1>11. CommitterOK'
  <2>1. ASSUME Committing PROVE committer.fd \in Fds /\ committer.fd # f
    BY <1>4, <2>1 DEF DnsInv, DnsTypeOK, CommitterOK
  <2> QED BY <1>3, <2>1 DEF DnsInv, CommitterOK, Committing
<1> QED
  BY <1>6, <1>7, <1>8, <1>9, <1>10, <1>11 DEF DnsInv

(* free of the ep_arg: nobody is registered with it any more.              *)
LEMMA ProcFree ==
  ASSUME DnsInv, proc_free
  PROVE  DnsInv'
<1>1. PICK b \in {"wait", "event"} :
        /\ poller.pc = "free" /\ poller' = [poller EXCEPT !.pc = b]
        /\ eparg' = eparg \ {poller.req}
        /\ UNCHANGED <<todo, sock, epolled, committer, events, called>>
  BY DEF proc_free, Polls, kernelvars
<1>2. poller' \in PollerRecords /\ poller'.pc = b
  BY <1>1 DEF DnsInv, DnsTypeOK, PollerRecords
<1>3. PICK r \in Requests : r = poller.req
  BY <1>1 DEF DnsInv, DnsTypeOK, Handling
<1>4. Handling /\ ~Handling' /\ called[r] = 1
  BY <1>1, <1>2, <1>3 DEF Handling, DnsInv, PollerOK
<1>5. \A f \in Fds : sock[f] # r
  BY <1>1, <1>3, <1>4, DnsAssumption DEF DnsInv, SocketsOK
<1>6. DnsTypeOK'
  BY <1>1, <1>2, <1>4 DEF DnsInv, DnsTypeOK, PollerRecords, Committing
<1>7. CallsOK' /\ SocketsOK' /\ PollerOK'
  BY <1>1, <1>2, <1>4 DEF DnsInv, CallsOK, SocketsOK, PollerOK
<1>8. RegistrationsOK'
  BY <1>1, <1>3, <1>4, <1>5 DEF DnsInv, DnsTypeOK, RegistrationsOK, Registrations
<1>9. CommitterOK'
  BY <1>1, <1>3, <1>4 DEF DnsInv, CommitterOK, Committing
<1> QED
  BY <1>6, <1>7, <1>8, <1>9 DEF DnsInv

LEMMA DnsNextInv ==
  ASSUME DnsInv, [DnsNext]_dnsvars
  PROVE  DnsInv'
<1>1. CASE UNCHANGED dnsvars
  BY <1>1, DnsFrame DEF dnsvars, kernelvars
<1>2. CASE \E r \in Requests : answer(r) \/ lose(r)
  BY <1>2, DnsFrame DEF answer, lose
<1>3. CASE Poller
  BY <1>3, ProcWait, ProcEvent, ProcDel, ProcClose, ProcFree
     DEF Poller, proc_cleanup, Polls
<1> QED
  BY <1>1, <1>2, <1>3, CommitterInv DEF DnsNext, dns_rests

LEMMA DnsInvariant == DnsSpec => []DnsInv
<1>1. DnsInit => DnsInv
  BY DnsInitInv
<1>2. DnsInv /\ [DnsNext]_dnsvars => DnsInv'
  BY DnsNextInv
<1> QED
  BY <1>1, <1>2, PTL DEF DnsSpec

(* Whatever answers are lost, doubled or late and however descriptor       *)
(* numbers are used again, epoll never leads the poller to a freed ep_arg  *)
(* or to the socket of another request, and no callback comes twice.       *)
THEOREM DnsRegistrationsAreOpen == DnsSpec => []RegisteredOpen
<1>1. DnsInv => RegisteredOpen
  BY DEF DnsInv, DnsTypeOK, RegistrationsOK, CallsOK, RegisteredOpen
<1> QED
  BY <1>1, DnsInvariant, PTL

(* After the poller has handled an event, the request it was for has given *)
(* up its socket and its ep_arg, and no other request has lost its own.    *)
THEOREM DnsReleasesSockets == DnsSpec => []DnsReleases
<1>1. DnsInv => DnsReleases
  <2> SUFFICES ASSUME DnsInv, poller.pc \in {"wait", "event"}
               PROVE  LET waiting == {r \in Requests \ todo : called[r] = 0} IN
                      /\ {sock[f] : f \in Fds} \ {Nobody} = waiting
                      /\ eparg \subseteq waiting
    BY DEF DnsReleases
  <2> DEFINE waiting == {r \in Requests \ todo : called[r] = 0}
  <2>1. \A f \in Fds : sock[f] # Nobody => sock[f] \in waiting
    BY DEF DnsInv, DnsTypeOK, SocketsOK
  <2>2. \A r \in waiting : r # Nobody /\ \E f \in Fds : sock[f] = r
    BY DnsAssumption DEF DnsInv, SocketsOK
  <2>3. eparg \subseteq waiting
    BY DEF DnsInv, DnsTypeOK, RegistrationsOK, Handling
  <2> QED BY <2>1, <2>2, <2>3
<1> QED
  BY <1>1, DnsInvariant, PTL

-----------------------------------------------------------------------------
(* The work queue of server_mulport_epoll.c.                               *)

Queued == {j \in Jobs : fate[j] = "queued"}

(* The list of n jobs that s names.                                        *)
Lists(n, s) == /\ n \in Nat /\ s \in [1 .. n -> Jobs]
               /\ IsJobList(s) /\ {s[i] : i \in 1 .. n} = Queued

WqTypeOK ==
  /\ nextjob \in [Jobs -> Jobs \cup {NoJob}] /\ job \in [QueueWorkers -> Jobs \cup {NoJob}]
  /\ worker \in [QueueWorkers -> {"lock", "wait", "run", "gone"}]
  /\ fate \in [Jobs -> {"new", "queued", "running", "freed", "dropped"}]
  /\ jobs_mutex \in QueueWorkers \cup {Unlocked}

(* Exactly the workers that run have a job, each its own.                  *)
RunnersOK ==
  \A w \in QueueWorkers :
    /\ worker[w] # "run" => job[w] = NoJob
    /\ worker[w] = "run" => /\ job[w] \in Jobs /\ fate[job[w]] = "running"
                            /\ \A v \in QueueWorkers \ {w} : job[v] # job[w]

(* A worker that is gone has the mutex.                                    *)
GoneOK == \A w \in QueueWorkers : worker[w] = "gone" <=> jobs_mutex = w

WqInv == WqTypeOK /\ RunnersOK /\ GoneOK /\ \E n, s : Lists(n, s)

(* A list of jobs that differ is no longer than there are jobs.            *)
LEMMA ListFits ==
  ASSUME NEW n, NEW s, Lists(n, s)
  PROVE  n \in 0 .. Cardinality(Jobs)
<1>1. s \in Injection(1 .. n, Jobs)
  BY DEF Lists, IsJobList, Injection, IsInjective
<1>2. n \in Nat /\ IsFiniteSet(1 .. n) /\ Cardinality(1 .. n) = n
  BY FS_Interval DEF Lists
<1>3. Cardinality(1 .. n) <= Cardinality(Jobs) /\ Cardinality(Jobs) \in Nat
  BY <1>1, <1>2, WqAssumption, FS_Injection, FS_CardinalityType
<1> QED
  BY <1>2, <1>3

LEMMA WqInitInv == WqInit => WqInv
<1> SUFFICES ASSUME WqInit PROVE WqInv
  OBVIOUS
<1>1. WqTypeOK
  BY DEF WqInit, WqTypeOK
<1>2. RunnersOK
  BY DEF WqInit, RunnersOK
<1>3. GoneOK
  BY WqAssumption DEF WqInit, GoneOK
<1>4. Lists(0, <<>>)
  BY DEF WqInit, Lists, IsJobList, Queued
<1> QED
  BY <1>1, <1>2, <1>3, <1>4 DEF WqInv

(* Steps that leave the list and the jobs alone.                           *)
LEMMA ListKept ==
  ASSUME WqInv, UNCHANGED <<waiting_jobs, nextjob, fate>>
  PROVE  \E n, s : Lists(n, s)'
<1>1. PICK n, s : Lists(n, s)
  BY DEF WqInv
<1>2. Lists(n, s)'
  BY <1>1 DEF Lists, IsJobList, Queued
<1> QED
  BY <1>2

LEMMA WorkersMove ==
  ASSUME WqInv, NEW w \in QueueWorkers,
         worker_waits(w) \/ worker_wakes(w) \/ worker_leaves(w)
  PROVE  WqInv'
<1>1. UNCHANGED <<waiting_jobs, nextjob, fate, job>>
  BY DEF worker_waits, worker_wakes, worker_leaves
<1>2. PICK s \in {"wait", "lock", "gone"} :
        /\ worker' = [worker EXCEPT ![w] = s]
        /\ worker[w] \in {"lock", "wait"}
        /\ IF s = "gone" THEN jobs_mutex = Unlocked /\ jobs_mutex' = w
           ELSE jobs_mutex' = jobs_mutex
  BY DEF worker_waits, worker_wakes, worker_leaves, Enters
<1>3. WqTypeOK' /\ RunnersOK'
  BY <1>1, <1>2 DEF WqInv, WqTypeOK, RunnersOK
<1>4. GoneOK'
  BY <1>2, WqAssumption DEF WqInv, WqTypeOK, GoneOK
<1>5. \E n, s1 : Lists(n, s1)'
  BY <1>1, ListKept
<1> QED
  BY <1>3, <1>4, <1>5 DEF WqInv

(* LL_REMOVE of the first job leaves the rest of the list.                 *)
LEMMA WorkerTakes ==
  ASSUME WqInv, NEW w \in QueueWorkers, worker_takes(w)
  PROVE  WqInv'
<1>1. PICK n, s : Lists(n, s)
  BY DEF WqInv
<1>2. /\ worker[w] = "lock" /\ jobs_mutex = Unlocked /\ waiting_jobs # NoJob
      /\ job' = [job EXCEPT ![w] = waiting_jobs]
      /\ waiting_jobs' = nextjob[waiting_jobs]
      /\ fate' = [fate EXCEPT ![waiting_jobs] = "running"]
      /\ worker' = [worker EXCEPT ![w] = "run"]
      /\ nextjob' = nextjob /\ jobs_mutex' = jobs_mutex
  BY DEF worker_takes, picks, Enters
<1>3. n \in Nat \ {0} /\ s \in [1 .. n -> Jobs] /\ s[1] = waiting_jobs
  BY <1>1, <1>2 DEF Lists, IsJobList
<1>4. PICK j \in Jobs : j = waiting_jobs
  BY <1>3
<1>5. fate[j] = "queued"
  BY <1>1, <1>3, <1>4 DEF Lists, Queued
<1>6. WqTypeOK'
  BY <1>2, <1>4 DEF WqInv, WqTypeOK
<1>7. RunnersOK'
  <2>1. j # NoJob
    BY <1>4, WqAssumption
  <2>2. \A v \in QueueWorkers : job[v] # j
    BY <1>5, <2>1 DEF WqInv, WqTypeOK, RunnersOK
  <2>3. /\ \A v \in QueueWorkers : job'[v] = IF v = w THEN j ELSE job[v]
        /\ \A v \in QueueWorkers : worker'[v] = IF v = w THEN "run" ELSE worker[v]
        /\ \A k \in Jobs : fate'[k] = IF k = j THEN "running" ELSE fate[k]
    BY <1>2, <1>4 DEF WqInv, WqTypeOK
  <2> QED BY <2>2, <2>3 DEF WqInv, RunnersOK
<1>8. GoneOK'
  BY <1>2, WqAssumption DEF WqInv, WqTypeOK, GoneOK
<1> DEFINE r == [i \in 1 .. n - 1 |-> s[i + 1]]
<1>9. Lists(n - 1, r)'
  <2>1. n - 1 \in Nat /\ r \in [1 .. n - 1 -> Jobs]
    BY <1>3
  <2>2. IsJobList(r)'
    <3>1. waiting_jobs' = IF 1 .. n - 1 = {} THEN NoJob ELSE r[1]
      <4>1. 1 \in DOMAIN s /\ DOMAIN s = 1 .. n
        BY <1>3
      <4>2. nextjob[s[1]] = IF 1 + 1 \in DOMAIN s THEN s[1 + 1] ELSE NoJob
        BY <1>1, <4>1 DEF Lists, IsJobList
      <4>3. CASE n = 1
        BY <1>2, <1>3, <4>1, <4>2, <4>3
      <4>4. CASE n # 1
        <5>1. 1 \in 1 .. n - 1 /\ 1 + 1 \in DOMAIN s /\ r[1] = s[1 + 1]
          BY <1>3, <4>1, <4>4
        <5> QED BY <1>2, <1>3, <4>2, <5>1
      <4> QED BY <4>3, <4>4
    <3>2. \A i \in 1 .. n - 1 : nextjob[r[i]] = IF i + 1 \in 1 .. n - 1 THEN r[i + 1] ELSE NoJob
      BY <1>1, <1>3 DEF Lists, IsJobList
    <3>3. \A i, k \in 1 .. n - 1 : r[i] = r[k] => i = k
      BY <1>1, <1>3 DEF Lists, IsJobList
    <3> QED BY <1>2, <3>1, <3>2, <3>3 DEF IsJobList
  <2>3. {r[i] : i \in 1 .. n - 1} = Queued \ {j}
    <3>1. Queued = {s[i] : i \in 1 .. n}
      BY <1>1 DEF Lists
    <3>2. \A i \in 1 .. n : s[i] = j <=> i = 1
      BY <1>1, <1>3, <1>4 DEF Lists, IsJobList
    <3>3. \A k : k \in {r[i] : i \in 1 .. n - 1} => k \in Queued \ {j}
      BY <1>3, <3>1, <3>2
    <3>4. ASSUME NEW k \in Queued \ {j} PROVE k \in {r[i] : i \in 1 .. n - 1}
      <4>1. PICK i \in 1 .. n : s[i] = k
        BY <3>1, <3>4
      <4>2. i - 1 \in 1 .. n - 1 /\ r[i - 1] = s[i]
        BY <1>3, <3>2, <3>4, <4>1
      <4> QED BY <4>1, <4>2
    <3> QED BY <3>3, <3>4
  <2>4. Queued' = Queued \ {j}
    BY <1>2, <1>4 DEF Queued, WqInv, WqTypeOK
  <2> HIDE DEF r
  <2> QED BY <2>1, <2>2, <2>3, <2>4 DEF Lists
<1> QED
  BY <1>6, <1>7, <1>8, <1>9 DEF WqInv

(* client_job frees its job, which is in no list.                          *)
LEMMA WorkerRuns ==
  ASSUME WqInv, NEW w \in QueueWorkers, worker_runs(w)
  PROVE  WqInv'
<1>1. PICK n, s : Lists(n, s)
  BY DEF WqInv
<1>2. /\ worker[w] = "run"
      /\ fate' = [fate EXCEPT ![job[w]] = "freed"]
      /\ job' = [job EXCEPT ![w] = NoJob]
      /\ worker' = [worker EXCEPT ![w] = "lock"]
      /\ UNCHANGED <<waiting_jobs, nextjob, jobs_mutex>>
  BY DEF worker_runs
<1>3. PICK j \in Jobs : j = job[w] /\ fate[j] = "running"
  BY <1>2 DEF WqInv, RunnersOK
<1>4. /\ \A v \in QueueWorkers : job'[v] = IF v = w THEN NoJob ELSE job[v]
      /\ \A v \in QueueWorkers : worker'[v] = IF v = w THEN "lock" ELSE worker[v]
      /\ \A k \in Jobs : fate'[k] = IF k = j THEN "freed" ELSE fate[k]
  BY <1>2, <1>3 DEF WqInv, WqTypeOK
<1>5. WqTypeOK'
  BY <1>2, <1>3 DEF WqInv, WqTypeOK
<1>6. RunnersOK'
  <2>1. j # NoJob
    BY WqAssumption
  <2>2. \A v \in QueueWorkers \ {w} : job[v] # j
    BY <1>2, <1>3 DEF WqInv, RunnersOK
  <2> QED BY <1>4, <2>1, <2>2, WqAssumption DEF WqInv, RunnersOK
<1>7. GoneOK'
  BY <1>2, <1>4 DEF WqInv, GoneOK
<1>8. Queued' = Queued
  BY <1>3, <1>4 DEF Queued
<1>9. Lists(n, s)'
  BY <1>1, <1>2, <1>8 DEF Lists, IsJobList
<1> QED
  BY <1>5, <1>6, <1>7, <1>9 DEF WqInv

(* LL_ADD puts a job in front that is in no list yet.                      *)
LEMMA AddJob ==
  ASSUME WqInv, NEW j \in Jobs, workqueue_add_job(j)
  PROVE  WqInv'
<1>1. PICK n, s : Lists(n, s)
  BY DEF WqInv
<1>2. /\ fate[j] = "new"
      /\ nextjob' = [nextjob EXCEPT ![j] = waiting_jobs]
      /\ waiting_jobs' = j
      /\ fate' = [fate EXCEPT ![j] = "queued"]
      /\ UNCHANGED <<jobs_mutex, job>>
  BY DEF workqueue_add_job, added
<1>3. n \in Nat /\ s \in [1 .. n -> Jobs] /\ DOMAIN s = 1 .. n
  BY <1>1 DEF Lists
<1>4. waiting_jobs = IF DOMAIN s = {} THEN NoJob ELSE s[1]
  BY <1>1 DEF Lists, IsJobList
<1>5. waiting_jobs \in Jobs \cup {NoJob}
  BY <1>3, <1>4
<1>6. \A v \in QueueWorkers : \/ worker'[v] = worker[v]
                              \/ worker[v] = "wait" /\ worker'[v] = "lock"
  BY DEF workqueue_add_job, Waiting, WqInv, WqTypeOK
<1>7. worker' \in [QueueWorkers -> {"lock", "wait", "run", "gone"}]
  BY DEF workqueue_add_job, Waiting, WqInv, WqTypeOK
<1>8. \A k \in Jobs : fate'[k] = IF k = j THEN "queued" ELSE fate[k]
  BY <1>2 DEF WqInv, WqTypeOK
<1>9. WqTypeOK'
  BY <1>2, <1>5, <1>7 DEF WqInv, WqTypeOK
<1>10. RunnersOK'
  BY <1>2, <1>6, <1>8 DEF WqInv, RunnersOK
<1>11. GoneOK'
  BY <1>2, <1>6 DEF WqInv, GoneOK
<1> DEFINE r == [i \in 1 .. n + 1 |-> IF i = 1 THEN j ELSE s[i - 1]]
<1>12. Lists(n + 1, r)'
  <2>1. n + 1 \in Nat /\ r \in [1 .. n + 1 -> Jobs] /\ DOMAIN r = 1 .. n + 1
    BY <1>3
  <2>2. /\ r[1] = j /\ 1 \in 1 .. n + 1
        /\ \A i \in 1 .. n : i + 1 \in 1 .. n + 1 /\ r[i + 1] = s[i]
        /\ \A i \in 1 .. n + 1 : i # 1 => i - 1 \in 1 .. n /\ r[i] = s[i - 1]
    BY <1>3
  <2>3. \A i \in 1 .. n : s[i] \in Queued
    BY <1>1 DEF Lists
  <2>4. \A i \in 1 .. n : s[i] # j
    BY <1>2, <2>3 DEF Queued
  <2>5. \A k \in Jobs : nextjob'[k] = IF k = j THEN waiting_jobs ELSE nextjob[k]
    BY <1>2 DEF WqInv, WqTypeOK
  <2>6. Queued' = Queued \cup {j}
    BY <1>8 DEF Queued
  <2> HIDE DEF r
  <2>7. ASSUME NEW i \in 1 .. n + 1
        PROVE  nextjob'[r[i]] = IF i + 1 \in 1 .. n + 1 THEN r[i + 1] ELSE NoJob
    <3>1. CASE i = 1
      <4>1. nextjob'[r[1]] = waiting_jobs
        BY <2>2, <2>5
      <4>2. CASE n = 0
        BY <1>3, <1>4, <3>1, <4>1, <4>2
      <4>3. CASE n # 0
        <5>1. 1 \in 1 .. n
          BY <1>3, <4>3
        <5>2. r[1 + 1] = s[1] /\ 1 + 1 \in 1 .. n + 1
          BY <2>2, <5>1
        <5> QED BY <1>3, <1>4, <3>1, <4>1, <5>1, <5>2
      <4> QED BY <4>2, <4>3
    <3>2. CASE i # 1
      <4>1. PICK k \in 1 .. n : k = i - 1
        BY <2>2, <3>2
      <4>2. r[i] = s[k] /\ s[k] \in Jobs /\ s[k] # j
        BY <1>3, <2>2, <2>4, <3>2, <4>1
      <4>3. nextjob'[r[i]] = nextjob[s[k]]
        BY <2>5, <4>2
      <4>4. nextjob[s[k]] = IF k + 1 \in 1 .. n THEN s[k + 1] ELSE NoJob
        BY <1>1, <1>3 DEF Lists, IsJobList
      <4>5. k + 1 = i /\ (k + 1 \in 1 .. n <=> i + 1 \in 1 .. n + 1)
        BY <1>3, <4>1
      <4>6. k + 1 \in 1 .. n => r[i + 1] = s[k + 1]
        BY <2>2, <4>5
      <4> QED BY <4>3, <4>4, <4>5, <4>6
    <3> QED BY <3>1, <3>2
  <2>8. ASSUME NEW i \in 1 .. n + 1, NEW k \in 1 .. n + 1, r[i] = r[k]
        PROVE  i = k
    <3>1. \A a, b \in 1 .. n : s[a] = s[b] => a = b
      BY <1>1, <1>3 DEF Lists, IsJobList
    <3>2. CASE i = 1 \/ k = 1
      BY <2>2, <2>4, <2>8, <3>2
    <3>3. CASE i # 1 /\ k # 1
      <4>1. i - 1 = k - 1
        BY <2>2, <2>8, <3>1, <3>3
      <4> QED BY <1>3, <4>1
    <3> QED BY <3>2, <3>3
  <2>9. 1 .. n + 1 # {}
    BY <2>2
  <2>10. IsJobList(r)'
    BY <1>2, <2>1, <2>2, <2>7, <2>8, <2>9 DEF IsJobList
  <2>11. {r[i] : i \in 1 .. n + 1} = Queued \cup {j}
    <3>1. Queued = {s[i] : i \in 1 .. n}
      BY <1>1 DEF Lists
    <3>2. \A k : k \in {r[i] : i \in 1 .. n + 1} => k \in Queued \cup {j}
      BY <2>2, <3>1
    <3>3. \A k \in Queued \cup {j} : k \in {r[i] : i \in 1 .. n + 1}
      BY <2>2, <3>1
    <3> QED BY <3>2, <3>3
  <2> QED BY <2>1, <2>6, <2>10, <2>11 DEF Lists
<1> QED
  BY <1>9, <1>10, <1>11, <1>12 DEF WqInv

(* workqueue_shutdown leaves an empty list, and the jobs that run.         *)
LEMMA ShutdownClears ==
  ASSUME WqInv, shutdown_clears
  PROVE  WqInv'
<1>1. /\ waiting_jobs' = NoJob
      /\ UNCHANGED <<nextjob, jobs_mutex, job>>
      /\ \A j \in Jobs : fate'[j] = IF fate[j] = "queued" THEN "dropped" ELSE fate[j]
      /\ \A w \in QueueWorkers : worker'[w] = IF worker[w] = "wait" THEN "lock" ELSE worker[w]
  BY DEF shutdown_clears
<1>2. WqTypeOK'
  <2>1. fate' \in [Jobs -> {"new", "queued", "running", "freed", "dropped"}]
    BY DEF shutdown_clears, WqInv, WqTypeOK
  <2>2. worker' \in [QueueWorkers -> {"lock", "wait", "run", "gone"}]
    BY DEF shutdown_clears, WqInv, WqTypeOK
  <2> QED BY <1>1, <2>1, <2>2 DEF WqInv, WqTypeOK
<1>3. RunnersOK'
  BY <1>1 DEF WqInv, RunnersOK
<1>4. GoneOK'
  BY <1>1 DEF WqInv, GoneOK
<1>5. Queued' = {}
  BY <1>1 DEF Queued
<1>6. Lists(0, <<>>)'
  BY <1>1, <1>5 DEF Lists, IsJobList
<1> QED
  BY <1>2, <1>3, <1>4, <1>6 DEF WqInv

LEMMA WqNextInv ==
  ASSUME WqInv, [WqNext]_wqvars
  PROVE  WqInv'
<1>1. CASE UNCHANGED wqvars \/ shutdown_marks
  <2>1. UNCHANGED <<waiting_jobs, nextjob, fate, worker, job, jobs_mutex>>
    BY <1>1 DEF wqvars, shutdown_marks
  <2>2. WqTypeOK' /\ RunnersOK' /\ GoneOK'
    BY <2>1 DEF WqInv, WqTypeOK, RunnersOK, GoneOK
  <2> QED BY <2>1, <2>2, ListKept DEF WqInv
<1>2. CASE \E w \in QueueWorkers : WqWorker(w) \/ worker_wakes(w)
  BY <1>2, WorkersMove, WorkerTakes, WorkerRuns DEF WqWorker
<1>3. CASE \E j \in Jobs : workqueue_add_job(j)
  BY <1>3, AddJob
<1> QED
  BY <1>1, <1>2, <1>3, ShutdownClears DEF WqNext, epoll_times_out

LEMMA WqInvariant == WqSpec => []WqInv
<1>1. WqInit => WqInv
  BY WqInitInv
<1>2. WqInv /\ [WqNext]_wqvars => WqInv'
  BY WqNextInv
<1> QED
  BY <1>1, <1>2, PTL DEF WqSpec

(* For any number of workers and jobs, whenever workqueue_shutdown comes:  *)
(* the job list holds exactly the jobs that wait, ends, and leads to no    *)
(* freed job; no two workers run one job; and a worker that stops keeps    *)
(* jobs_mutex for ever, so at most one of them stops.                      *)
THEOREM JobListStaysSound == WqSpec => []JobListSound
<1>1. WqInv => JobListSound
  <2> SUFFICES ASSUME WqInv PROVE JobListSound
    OBVIOUS
  <2>1. PICK n, s : Lists(n, s)
    BY DEF WqInv
  <2>2. n \in 0 .. Cardinality(Jobs)
    BY <2>1, ListFits
  <2>3. /\ s \in [1 .. n -> Jobs] /\ IsJobList(s)
        /\ {s[i] : i \in 1 .. n} = {j \in Jobs : fate[j] = "queued"}
    BY <2>1 DEF Lists, Queued
  <2>4. \A w \in QueueWorkers : worker[w] = "run" =>
          /\ fate[job[w]] = "running"
          /\ \A v \in QueueWorkers \ {w} : job[v] # job[w]
    BY DEF WqInv, RunnersOK
  <2>5. {w \in QueueWorkers : worker[w] = "gone"} = {jobs_mutex} \ {Unlocked}
    BY WqAssumption DEF WqInv, WqTypeOK, GoneOK
  <2> QED BY <2>2, <2>3, <2>4, <2>5 DEF JobListSound
<1> QED
  BY <1>1, WqInvariant, PTL

=============================================================================
