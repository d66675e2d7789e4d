------------------------------- MODULE PkgRepo -------------------------------
(***************************************************************************)
(* The package repository: the HTTP server the kernel runs from net_poll   *)
(* (kernel/rust/pkgrepo.rs) and the HTTP client that fetches from it       *)
(* (kernel/rust/http.rs).  net_poll is called by the idle task and by      *)
(* every kernel wait loop that polls the network, so several of them may   *)
(* be inside the server at once; the server's lock protects its counters,  *)
(* not the buffer a package is read into.                                  *)
(*                                                                         *)
(* A package file is a sequence whose first element is the package header  *)
(* and whose other elements are units of payload.  A signature is the      *)
(* value it was computed over, which idealises HMAC-SHA256 as injective.   *)
(***************************************************************************)
EXTENDS Integers, Sequences, FiniteSets

CONSTANTS
    Clients,      \* fetches in progress on other machines
    Pollers,      \* kernel contexts that call net_poll
    Files,        \* 8.3 base names of package files
    Contents,     \* the package files a machine may hold
    SendCap,      \* SEND_BUF_CAP of the TCP socket, in units
    IndexCap,     \* units generate_manifest_index reads of a file
    CountWrap     \* the counters are u32 and wrap

VARIABLES
    disk,         \* Files -> the package file of that name, a set of at most one
    server,       \* SERVER: active, requests_total, packages_served
    buf,          \* FILE_BUF, shared by every caller of handle_client
    poller,       \* where each caller of rust_pkgrepo_poll is
    conn,         \* each client's connection as the server sees it
    got,          \* what each client's rust_http_get has returned
    seen          \* the store's repo_status.is_running, as of its last look

repoVars == <<disk, server, buf, poller, conn, got, seen>>

\* The value a package is signed with: header without signature, and payload.
Signature(name, size, payload) == <<name, size, payload>>

\* verify_pkg_bytes: header present, magic, the whole payload, signature.
verify_pkg_bytes(bytes) ==
    /\ bytes # <<>>
    /\ bytes[1].magic
    /\ Len(bytes) >= 1 + bytes[1].size
    /\ bytes[1].sig = Signature(bytes[1].name, bytes[1].size, SubSeq(bytes, 2, 1 + bytes[1].size))

\* parse_http_request and the dispatch on the path: what can be asked for.
Requests == {[method |-> "bad", path |-> "none"], [method |-> "POST", path |-> "status"]}
            \cup [method : {"GET"}, path : {"status", "index", "badname"} \cup Files]
            \cup [method : {"HEAD"}, path : Files]

\* An 8.3 base name, with the extension PKG or none, names a package file;
\* the path "badname" stands for the others.
extract_package_filename(path) == IF path \in Files THEN {path} ELSE {}

NoRequest == [method |-> "none", path |-> "none"]
NoReply == [code |-> 0, len |-> 0, body |-> <<>>]
NoConn == [st |-> "none", req |-> NoRequest, reply |-> NoReply]
Idle == [pc |-> "idle", client |-> "none", n |-> 0]
Small(x, y) == IF x < y THEN x ELSE y

RepoInit ==
    /\ disk \in [Files -> {{c} : c \in Contents} \cup {{}}]
    /\ server = [active |-> FALSE, requests |-> 0, served |-> 0]
    /\ buf = <<>>
    /\ poller = [p \in Pollers |-> Idle]
    /\ conn = [c \in Clients |-> NoConn]
    /\ got = [c \in Clients |-> {}]
    /\ seen = FALSE

(***************************************************************************)
(* Server                                                                  *)
(***************************************************************************)
\* rust_pkgrepo_start and rust_pkgrepo_stop through SYS_PKGREPO_CTL.  Closing
\* the listener leaves accepted connections alone.
rust_pkgrepo_start ==
    /\ ~server.active
    /\ server' = [server EXCEPT !.active = TRUE]
    /\ UNCHANGED conn

rust_pkgrepo_stop ==
    /\ server.active
    /\ server' = [server EXCEPT !.active = FALSE]
    /\ conn' = [c \in Clients |-> IF conn[c].st = "open" THEN [conn[c] EXCEPT !.st = "closed"] ELSE conn[c]]

\* The shell's repo command.
RepoCommand ==
    /\ rust_pkgrepo_start \/ rust_pkgrepo_stop
    /\ UNCHANGED <<disk, buf, poller, got, seen>>

\* toggle_repo_server of the store acts on the state it saw last, which a
\* command may have changed since, and then looks again.
toggle_repo_server ==
    /\ IF seen = server.active
         THEN rust_pkgrepo_start \/ rust_pkgrepo_stop
         ELSE UNCHANGED <<server, conn>>            \* refused: -16, or -1
    /\ seen' = server'.active
    /\ UNCHANGED <<disk, buf, poller, got>>

refresh_repo_status ==
    /\ seen' = server.active
    /\ UNCHANGED <<disk, server, buf, poller, conn, got>>

\* rust_pkgrepo_poll: takes the state under the lock, then one established
\* connection, if there is one.
rust_pkgrepo_poll(p, c) ==
    /\ poller[p] = Idle
    /\ server.active
    /\ conn[c].st = "open"
    /\ conn' = [conn EXCEPT ![c].st = "taken"]
    /\ poller' = [poller EXCEPT ![p] = [pc |-> "recv", client |-> c, n |-> 0]]
    /\ UNCHANGED <<disk, server, buf, got, seen>>

\* rust_tcp_send of the reply, then rust_tcp_close.
Answer(p, reply) ==
    LET c == poller[p].client IN
    /\ conn' = [conn EXCEPT ![c].st = "closed", ![c].reply = reply]
    /\ poller' = [poller EXCEPT ![p] = Idle]

Error(code) == [code |-> code, len |-> 1, body |-> <<"text">>]

\* A 200 reply: the headers take one unit of the send buffer and the body
\* what is left of it; what does not fit is dropped, for the result of the
\* second rust_tcp_send is not looked at.  A unit may be free again when the
\* peer has acknowledged the headers in between.
OkReply(req, body, free) ==
    [code |-> 200, len |-> Len(body),
     body |-> IF req.method = "HEAD" THEN <<>> ELSE SubSeq(body, 1, Small(Len(body), SendCap - 1 + free))]

\* generate_manifest_index lists the packages that verify in the part of the
\* file it reads.
generate_manifest_index ==
    {f \in Files : \E c \in disk[f] : verify_pkg_bytes(SubSeq(c, 1, Small(Len(c), IndexCap)))}

\* generate_status_text: running or stopped, and the counters.
generate_status_text == <<server>>

\* A connection with nothing to read is closed, a request that is no request
\* line answered 400 before it is counted.
NotServed(p, req) ==
    \/ /\ req = NoRequest
       /\ Answer(p, NoReply)
       /\ UNCHANGED server
    \/ /\ req.method = "bad"
       /\ Answer(p, Error(400))
       /\ UNCHANGED server

\* Everything else is counted, then dispatched on method and path.
Served(p, req) ==
    /\ req # NoRequest /\ req.method # "bad"
    /\ server' = [server EXCEPT !.requests = (@ + 1) % CountWrap]
    /\ \/ req.method = "POST" /\ Answer(p, Error(405))
       \/ /\ req.method # "POST" /\ req.path \in {"status", "index"}
          /\ Answer(p, OkReply(req, IF req.path = "status" THEN generate_status_text
                                    ELSE <<generate_manifest_index>>, 0))
       \/ /\ req.method # "POST" /\ req.path \notin {"status", "index"}
          /\ extract_package_filename(req.path) = {}
          /\ Answer(p, Error(404))
       \/ /\ req.method # "POST" /\ extract_package_filename(req.path) # {}
          /\ poller' = [poller EXCEPT ![p].pc = "read"]
          /\ UNCHANGED conn

\* The head of handle_client: rust_tcp_recv and the dispatch.
Recv(p) ==
    /\ poller[p].pc = "recv"
    /\ \/ NotServed(p, conn[poller[p].client].req)
       \/ Served(p, conn[poller[p].client].req)
    /\ UNCHANGED <<disk, buf, got, seen>>


\* A package that is missing or shorter than a header.
NotFound(p) ==
    Answer(p, Error(404))

\* vfs_read_file into FILE_BUF: what the file does not cover stays there.
ReadFile(p) ==
    LET file == UNION {disk[f] : f \in extract_package_filename(conn[poller[p].client].req.path)}
    IN  /\ poller[p].pc = "read"
        /\ \/ /\ file \subseteq {<<>>}
              /\ NotFound(p)
              /\ UNCHANGED buf
           \/ \E c \in file \ {<<>>} :
                /\ buf' = c \o SubSeq(buf, Len(c) + 1, Len(buf))
                /\ poller' = [poller EXCEPT ![p].pc = "verify", ![p].n = Len(c)]
                /\ UNCHANGED conn
        /\ UNCHANGED <<disk, server, got, seen>>

VerifyFile(p) ==
    /\ poller[p].pc = "verify"
    /\ IF verify_pkg_bytes(SubSeq(buf, 1, poller[p].n))
         THEN poller' = [poller EXCEPT ![p].pc = "send"] /\ UNCHANGED conn
         ELSE Answer(p, Error(403))
    /\ UNCHANGED <<disk, server, buf, got, seen>>

SendFile(p) ==
    /\ poller[p].pc = "send"
    /\ \E free \in {0, 1} :
         Answer(p, OkReply(conn[poller[p].client].req, SubSeq(buf, 1, poller[p].n), free))
    /\ server' = [server EXCEPT !.served = (@ + 1) % CountWrap]
    /\ UNCHANGED <<disk, buf, got, seen>>

(***************************************************************************)
(* Client: rust_http_get                                                   *)
(***************************************************************************)
\* The call returns: an error code, or the number of body bytes it copied.
Return(c, result) ==
    /\ got' = [got EXCEPT ![c] = {result}]
    /\ conn' = IF conn[c].st = "closed" THEN [conn EXCEPT ![c] = [NoConn EXCEPT !.st = "closed"]] ELSE conn

\* Host resolution fails, no socket is free or the connection is refused.
ConnectFails(c) ==
    /\ conn[c].st = "none" /\ got[c] = {}
    /\ Return(c, -1) \/ Return(c, -2)
    /\ UNCHANGED <<disk, server, buf, poller, seen>>

Connect(c) ==
    /\ conn[c].st = "none" /\ got[c] = {}
    /\ server.active
    /\ conn' = [conn EXCEPT ![c].st = "open"]
    /\ UNCHANGED <<disk, server, buf, poller, got, seen>>

\* The request is sent on a connection whose other end may be closed already.
SendRequest(c) ==
    /\ conn[c].st # "none" /\ conn[c].req = NoRequest /\ got[c] = {}
    /\ IF conn[c].st = "closed"
         THEN Return(c, -3)
         ELSE (\E r \in Requests : conn' = [conn EXCEPT ![c].req = r]) /\ UNCHANGED got
    /\ UNCHANGED <<disk, server, buf, poller, seen>>

\* The receive loop ends at the end of the stream, or by its timeout with
\* what arrived until then: nothing (-4), headers without their end (-5), or
\* a body that may be cut off.  The status code and Content-Length are not
\* looked at, so any body is a success.
Receive(c) ==
    LET r == conn[c].reply IN
    /\ conn[c].req # NoRequest /\ got[c] = {}
    /\ \/ r.code = 0 /\ Return(c, -4)
       \/ r.code # 0 /\ Return(c, -5)
       \/ r.code # 0 /\ \E k \in 0 .. Len(r.body) : Return(c, k)
    /\ UNCHANGED <<disk, server, buf, poller, seen>>

PollerStep(p) == Recv(p) \/ ReadFile(p) \/ VerifyFile(p) \/ SendFile(p)

RepoNext ==
    \/ RepoCommand \/ toggle_repo_server \/ refresh_repo_status
    \/ \E p \in Pollers, c \in Clients : rust_pkgrepo_poll(p, c)
    \/ \E p \in Pollers : PollerStep(p)
    \/ \E c \in Clients : ConnectFails(c) \/ Connect(c) \/ SendRequest(c) \/ Receive(c)

RepoSpec == RepoInit /\ [][RepoNext]_repoVars


\* The server answers a request for a signed package with its Content-Length
\* "followed by the complete package bytes": the body it hands to TCP is as
\* long as the length it announces.
CompleteReply ==
    \A c \in Clients :
        conn[c].reply.code = 200 /\ conn[c].req.method = "GET"
            => Len(conn[c].reply.body) = conn[c].reply.len
=============================================================================
