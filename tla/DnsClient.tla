------------------------------ MODULE DnsClient ------------------------------
(***************************************************************************)
(* The asynchronous DNS client of src/PoolTypeStructure/                   *)
(* 2.3.1-coroutine-main/async_dns_client_noblock.c: main commits requests  *)
(* while the thread dns_async_client_proc waits on epoll and calls the     *)
(* callbacks.  A step is one system call or allocation.  An answer may be  *)
(* lost or come twice; file descriptor numbers are used again.             *)
(***************************************************************************)
EXTENDS Naturals, FiniteSets

CONSTANTS Requests, Fds, Nobody

ASSUME DnsAssumption == Nobody \notin Requests \cup Fds

VARIABLES
  todo,         \* requests main has not committed yet
  sock,         \* for each descriptor, the request whose socket it is
  inflight,     \* requests sent whose answer may still come
  inbox,        \* requests whose answer lies in the socket
  epolled,      \* registrations: descriptor, and request of the ep_arg
  eparg,        \* requests whose ep_arg is allocated
  committer,    \* main: its step, request and descriptor
  poller,       \* the thread: its step, and the event it handles
  events,       \* events epoll_wait returned that are still to be handled
  called,       \* how often the callback of each request was called
  refused       \* history: requests without ep_arg or registration

kernelvars == <<sock, inflight, inbox, epolled>>
dnsvars == <<todo, kernelvars, eparg, committer, poller, events, called, refused>>

DnsInit ==
  /\ todo = Requests /\ sock = [f \in Fds |-> Nobody]
  /\ inflight = {} /\ inbox = {} /\ epolled = {} /\ eparg = {} /\ events = {}
  /\ committer = [pc |-> "next", req |-> Nobody, fd |-> Nobody]
  /\ poller = [pc |-> "wait", req |-> Nobody, fd |-> Nobody]
  /\ called = [r \in Requests |-> 0] /\ refused = {}

-----------------------------------------------------------------------------
(* dns_async_client_commit, for one domain after the other.                *)

Commits(a, b) == committer.pc = a /\ committer' = [committer EXCEPT !.pc = b]

commit_socket ==
  LET r == CHOOSE d \in todo : TRUE IN  \* the next of the array domain
  /\ committer.pc = "next" /\ todo # {}
  /\ \E f \in {g \in Fds : sock[g] = Nobody} :
       /\ todo' = todo \ {r} /\ sock' = [sock EXCEPT ![f] = r]
       /\ committer' = [pc |-> "send", req |-> r, fd |-> f]
  /\ UNCHANGED <<inflight, inbox, epolled, eparg, poller, events, called, refused>>

commit_no_socket == /\ todo # {}
                    /\ \A f \in Fds : sock[f] # Nobody
                    /\ Commits("next", "exited")
                    /\ UNCHANGED <<todo, kernelvars, eparg, poller, events, called, refused>>

commit_sendto == /\ Commits("send", "arg")
                 /\ inflight' = inflight \cup {committer.req}
                 /\ UNCHANGED <<todo, sock, inbox, epolled, eparg, poller, events, called, refused>>

commit_arg == /\ Commits("arg", "add")
              /\ eparg' = eparg \cup {committer.req}
              /\ UNCHANGED <<todo, kernelvars, poller, events, called, refused>>

(* calloc fails: the socket stays open and is never registered.            *)
commit_no_arg == /\ Commits("arg", "next")
                 /\ refused' = refused \cup {committer.req}
                 /\ UNCHANGED <<todo, kernelvars, eparg, poller, events, called>>

commit_add == /\ Commits("add", "next")
              /\ epolled' = epolled \cup {[fd |-> committer.fd, req |-> committer.req]}
              /\ UNCHANGED <<todo, sock, inflight, inbox, eparg, poller, events, called, refused>>

(* epoll_ctl fails: the socket and the ep_arg stay, and main goes on.      *)
commit_add_fails == /\ Commits("add", "next")
                    /\ refused' = refused \cup {committer.req}
                    /\ UNCHANGED <<todo, kernelvars, eparg, poller, events, called>>

Committer == \/ commit_socket \/ commit_no_socket \/ commit_sendto
             \/ commit_arg \/ commit_no_arg \/ commit_add \/ commit_add_fails

-----------------------------------------------------------------------------
(* The server and the network: an answer reaches the socket of its request *)
(* if that is still open, and another one may follow; or it gets lost.     *)

answer(r) == /\ r \in inflight
             /\ inbox' = IF \E f \in Fds : sock[f] = r THEN inbox \cup {r} ELSE inbox
             /\ inflight' \in {inflight, inflight \ {r}}
             /\ UNCHANGED <<todo, sock, epolled, eparg, committer, poller, events, called, refused>>

lose(r) == /\ r \in inflight /\ inflight' = inflight \ {r}
           /\ UNCHANGED <<todo, sock, inbox, epolled, eparg, committer, poller, events, called, refused>>

-----------------------------------------------------------------------------
(* dns_async_client_proc.                                                  *)

proc_wait == /\ poller.pc = "wait"
             /\ events' = {e \in epolled : e.req \in inbox} /\ events' # {}
             /\ poller' = [poller EXCEPT !.pc = "event"]
             /\ UNCHANGED <<todo, kernelvars, eparg, committer, called, refused>>

(* recvfrom, dns_parse_response and the callback, for the next event.      *)
proc_event == /\ poller.pc = "event"
  /\ \E e \in events : /\ poller' = [pc |-> "del", req |-> e.req, fd |-> e.fd]
                       /\ inbox' = inbox \ {sock[e.fd]}
                       /\ called' = [called EXCEPT ![e.req] = @ + 1]
                       /\ events' = events \ {e}
  /\ UNCHANGED <<todo, sock, inflight, epolled, eparg, committer, refused>>

Polls(a, b) == poller.pc = a /\ poller' = [poller EXCEPT !.pc = b]

(* A closed socket loses its registration and what lies in it.             *)
close(f) == /\ sock' = [sock EXCEPT ![f] = Nobody]
            /\ inbox' = inbox \ {sock[f]}
            /\ epolled' = {e \in epolled : e.fd # f}
epoll_del(f) == /\ epolled' = {e \in epolled : e.fd # f}
                /\ UNCHANGED <<sock, inbox>>

(* Mutants: the socket is closed before the number is taken off epoll; it  *)
(* is not closed.                                                          *)
proc_cleanup_swapped ==
  /\ \/ Polls("del", "close") /\ close(poller.fd)
     \/ Polls("close", "free") /\ epoll_del(poller.fd)
  /\ UNCHANGED <<todo, inflight, eparg, committer, events, called, refused>>
proc_cleanup_unclosed ==
  /\ Polls("del", "free") /\ epoll_del(poller.fd)
  /\ UNCHANGED <<todo, inflight, eparg, committer, events, called, refused>>
proc_cleanup_registered ==
  /\ Polls("del", "free") /\ UNCHANGED <<sock, inbox, epolled>>
  /\ UNCHANGED <<todo, inflight, eparg, committer, events, called, refused>>

proc_cleanup ==
  /\ \/ Polls("del", "close") /\ epoll_del(poller.fd)
     \/ Polls("close", "free") /\ close(poller.fd)
  /\ UNCHANGED <<todo, inflight, eparg, committer, events, called, refused>>

proc_free == /\ Polls("free", IF events = {} THEN "wait" ELSE "event")
             /\ eparg' = eparg \ {poller.req}
             /\ UNCHANGED <<todo, kernelvars, committer, events, called, refused>>

Poller == proc_wait \/ proc_event \/ proc_cleanup \/ proc_free

-----------------------------------------------------------------------------
Exited == committer.pc = "exited"

(* main waits in getchar, or the process is gone.                          *)
dns_rests == (Exited \/ (todo = {} /\ committer.pc = "next")) /\ UNCHANGED dnsvars

DnsNext == \/ ~Exited /\ (Committer \/ Poller \/ \E r \in Requests : answer(r) \/ lose(r))
           \/ dns_rests

DnsSpec == DnsInit /\ [][DnsNext]_dnsvars

(* epoll only knows open sockets, each with the ep_arg of the request it   *)
(* was opened for: no event leads to a freed ep_arg or another's socket,   *)
(* and however often an answer comes, it is called back once at most.      *)
RegisteredOpen ==
  /\ \A e \in epolled \cup events : sock[e.fd] = e.req /\ e.req \in eparg
  /\ \A r \in Requests : called[r] <= 1

(* Between two events every request that was called back has given up its  *)
(* socket and its ep_arg; the others keep theirs.                          *)
DnsReleases ==
  committer.pc = "next" /\ poller.pc \in {"wait", "event"} =>
    LET waiting == {r \in Requests \ todo : called[r] = 0} IN
    /\ {sock[f] : f \in Fds} \ {Nobody} = waiting
    /\ eparg \subseteq waiting

(* An answer that has reached its socket is passed to the callback, also   *)
(* when it came before the socket was registered, unless the request could *)
(* not be registered at all.                                               *)
AnswerIsDelivered ==
  \A r \in Requests : r \in inbox ~> called[r] = 1 \/ r \in refused \/ Exited

=============================================================================
