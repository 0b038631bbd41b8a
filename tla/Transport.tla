----------------------------- MODULE Transport ------------------------------
(* How a request gets to its peer: the versioned structs of the C ABI        *)
(* (client/mod.rs), hyper4k_client_new and the checks of hyper4k_client_send *)
(* (handle.rs), the connectors (plaintext.rs, proxy.rs, tls.rs) and the form *)
(* in which the request is written.  One client, one request after another;  *)
(* closing is in Client, leases and retries are in Pool.                     *)
EXTENDS Integers

CONSTANTS Sizes,           \* struct_size of the callers' structs, in fields
          AskedTimeouts,   \* connect_timeout_ms a caller may ask for, in ticks; 0 disables it
          DefaultTimeout,  \* connect_timeout_ms of options_init, in ticks
          HeadLimit,       \* the tunnel's 8 KiB, in reads
          MaxRequests      \* bound: calls of send

(* The structs in fields, those that do not bear on the transport left out.  *)
(* Hyper4kClientOptions: 1 header, 2 flags, 3 connect_timeout_ms,            *)
(* 4 read_idle_timeout_ms, 5 custom_ca_pem, 6 proxy_url.                     *)
(* Hyper4kClientRequest: 1 header, 2 method and url, 3 headers and body,     *)
(* 4 read_idle_timeout_ms.  Beyond them are fields of a newer caller, then   *)
(* memory that is not the struct's.                                          *)
Fields == 1 .. 7
OptionsMin == 2
OptionsKnown == 6
RequestMin == 2
RequestKnown == 4

Inherit == -1  \* u64::MAX
DefaultOptions == [flags |-> {}, timeout |-> DefaultTimeout, idle |-> 2, ca |-> "null", proxy |-> "null"]
DefaultRequest == [target |-> "none", parts |-> "ok", idle |-> Inherit]
OptionValues == [flags : SUBSET {"h2", "replace"} \cup {{"unknown"}},
                 timeout : AskedTimeouts \cup {DefaultTimeout},
                 idle : {0, 2}, ca : {"null", "good", "bad"}, proxy : {"null", "good", "bad"}]
RequestValues == [target : {"none", "http", "https", "badname", "bad"},
                  parts : {"ok", "null", "bad"}, idle : {Inherit, 0, 1}]

Schemes == {"http", "https"}
Statuses == {"OK", "ABI_MISMATCH", "STRUCT_SIZE", "UNKNOWN_FLAGS", "INVALID_ARG", "UNSUPPORTED", "OOM"}
Errors == {"NONE", "CONNECT", "TLS_CA", "TLS_HOSTNAME", "TLS_EXPIRED", "TLS_OTHER", "ALPN_NO_H2",
           "PROTOCOL", "TIMEOUT"}

ASSUME TransportConstants ==
  /\ Sizes \subseteq Fields /\ AskedTimeouts \subseteq Nat /\ DefaultTimeout \in Nat \ {0}
  /\ HeadLimit \in Nat /\ MaxRequests \in Nat

VARIABLES
  pc, status,            \* where the caller or its request is; the last status returned
  memory, size, local,   \* who wrote each field of the caller's struct; its size; the callee's copy
  asked, wish,           \* what the caller set in its options and in its request
  native, client,        \* whether the platform has trust roots; Hyper4kClient
  calls, request,        \* calls of send so far; the request being run
  conns, dialling,       \* per pool, the connection in it; the one being set up
  clock, elapsed, head,  \* ticks of the timed phase and of the dial; reads of the tunnel's answer
  sent, error            \* the request as written; how it ended

abiVars == <<memory, size, local, asked, wish>>
dialVars == <<conns, dialling, clock, elapsed, head>>
vars == <<pc, status, abiVars, native, client, calls, request, dialVars, sent, error>>

NoClient == [h2 |-> FALSE, proxied |-> FALSE, tls |-> FALSE, roots |-> {}, timeout |-> 0, idle |-> 0]
NoRequest == [scheme |-> "none", named |-> FALSE, absolute |-> FALSE, idle |-> 0]
NoConn == [to |-> "none", tunnel |-> FALSE, issuer |-> "none", proto |-> "none"]
NotSent == [scheme |-> "none", conn |-> NoConn, form |-> "none", idle |-> 0]

Init ==
  /\ pc = "options" /\ status = "OK"
  /\ memory = [i \in Fields |-> "foreign"] /\ size = 0 /\ local = memory
  /\ asked = DefaultOptions /\ wish = DefaultRequest
  /\ native \in BOOLEAN /\ client = NoClient
  /\ calls = 0 /\ request = NoRequest
  /\ conns = [s \in Schemes |-> NoConn] /\ dialling = NoConn
  /\ clock = 0 /\ elapsed = 0 /\ head = 0
  /\ sent = NotSent /\ error = "NONE"

Goto(l) == pc' = l
-----------------------------------------------------------------------------
(* The versioned structs.                                                    *)

(* Mutant of InitPrefix: the whole struct of this build is written. *)
InitPrefixWhole(mem, n, known) == [i \in Fields |-> IF i <= known THEN "default" ELSE mem[i]]

(* init_prefix: at most min(struct_size, size_of T). *)
InitPrefix(mem, n, known) == [i \in Fields |-> IF i <= n /\ i <= known THEN "default" ELSE mem[i]]

(* copy_prefix: the same prefix, over this build's defaults. *)
CopyPrefix(mem, n, known) == [i \in Fields |-> IF i <= n /\ i <= known THEN mem[i] ELSE "default"]

(* A NULL pointer, then validate_header: the struct is of major version 4. *)
Arguments == {"NULL", "other major", "ours"}
ValidateHeader(arg, n, least) ==
  IF arg = "NULL" THEN "INVALID_ARG"
  ELSE IF arg = "other major" THEN "ABI_MISMATCH"
  ELSE IF n < least THEN "STRUCT_SIZE" ELSE "OK"

(* The caller allocates its struct and has it initialised; NULL and one      *)
(* below the minimum are refused.                                            *)
InitStruct(n, least, known, next) ==
  LET fresh == [i \in Fields |-> IF i <= n THEN "junk" ELSE "foreign"] IN
  /\ size' = n
  /\ local' = [i \in Fields |-> "default"]
  /\ \/ /\ memory' = fresh /\ Goto("over")
        /\ status' \in {"INVALID_ARG"} \cup (IF n < least THEN {"STRUCT_SIZE"} ELSE {})
     \/ n >= least /\ memory' = InitPrefix(fresh, n, known) /\ status' = "OK" /\ Goto(next)

OptionsInit ==
  /\ pc = "options"
  /\ \E n \in Sizes : InitStruct(n, OptionsMin, OptionsKnown, "new")
  /\ UNCHANGED <<asked, wish, native, client, calls, request, dialVars, sent, error>>

RequestInit ==
  /\ pc = "ready" /\ calls < MaxRequests
  /\ \E n \in Sizes : InitStruct(n, RequestMin, RequestKnown, "send")
  /\ UNCHANGED <<asked, wish, native, client, calls, request, dialVars, sent, error>>

(* The caller sets the fields its struct has ... *)
Fill == [i \in Fields |-> IF i > 1 /\ i <= size THEN "caller" ELSE memory[i]]
OptionsAsked(o) ==
  /\ size < 3 => o.timeout = DefaultTimeout
  /\ size < 4 => o.idle = DefaultOptions.idle
  /\ size < 5 => o.ca = "null"
  /\ size < 6 => o.proxy = "null"
RequestAsked(r) ==
  /\ r.target # "none"
  /\ size < 3 => r.parts = "ok"
  /\ size < 4 => r.idle = Inherit

(* ... and the callee reads its copy. *)
Read(copy, i, given, default) == IF copy[i] = "caller" THEN given ELSE default
ReadOptions(copy, o) ==
  [flags |-> Read(copy, 2, o.flags, {}), timeout |-> Read(copy, 3, o.timeout, DefaultTimeout),
   idle |-> Read(copy, 4, o.idle, DefaultOptions.idle), ca |-> Read(copy, 5, o.ca, "null"),
   proxy |-> Read(copy, 6, o.proxy, "null")]
ReadRequest(copy, r) ==
  [target |-> Read(copy, 2, r.target, "none"), parts |-> Read(copy, 3, r.parts, "ok"),
   idle |-> Read(copy, 4, r.idle, Inherit)]
-----------------------------------------------------------------------------
(* hyper4k_client_new.                                                       *)

(* build_tls_config: some platform root unless they are replaced, then the   *)
(* caller's bundle, which must parse.                                        *)
TlsConfig(o) ==
  IF "replace" \notin o.flags /\ ~native THEN "TLS_OTHER" ELSE IF o.ca = "bad" THEN "TLS_CA" ELSE "NONE"

(* Mutant of Roots: the caller's bundle always replaces the platform's. *)
RootsReplaced(o) == IF o.ca = "good" THEN {"custom"} ELSE {"system"}

Roots(o) ==
  (IF "replace" \in o.flags THEN {} ELSE {"system"}) \cup (IF o.ca = "good" THEN {"custom"} ELSE {})

MakeClient(o) ==
  [h2 |-> "h2" \in o.flags, proxied |-> o.proxy # "null", tls |-> TlsConfig(o) = "NONE",
   roots |-> IF TlsConfig(o) = "NONE" THEN Roots(o) ELSE {}, timeout |-> o.timeout, idle |-> o.idle]

(* The checks in their order; the runtime may fail to start. *)
NewStatus(arg, o, started) ==
  LET header == ValidateHeader(arg, size, OptionsMin) IN
  IF header # "OK" THEN header
  ELSE IF "unknown" \in o.flags THEN "UNKNOWN_FLAGS"
  ELSE IF ~started THEN "OOM"
  ELSE IF o.proxy = "bad" \/ TlsConfig(o) = "TLS_CA" THEN "INVALID_ARG" ELSE "OK"

ClientNew ==
  /\ pc = "new"
  /\ memory' = Fill /\ local' = CopyPrefix(memory', size, OptionsKnown)
  /\ \E o \in OptionValues, arg \in Arguments, started \in BOOLEAN :
       LET seen == ReadOptions(local', o) IN
       /\ OptionsAsked(o) /\ asked' = o
       /\ status' = NewStatus(arg, seen, started)
       /\ client' = IF status' = "OK" THEN MakeClient(seen) ELSE NoClient
       /\ Goto(IF status' = "OK" THEN "ready" ELSE "over")
  /\ UNCHANGED <<size, wish, native, calls, request, dialVars, sent, error>>
-----------------------------------------------------------------------------
(* hyper4k_client_send; its closed check and its reservation are in Client.  *)

Scheme(target) == IF target = "badname" THEN "https" ELSE target

(* The order: header, url, h2c, NULL headers or body, trust, header syntax. *)
SendStatus(arg, r) ==
  LET header == ValidateHeader(arg, size, RequestMin) IN
  IF header # "OK" THEN header
  ELSE IF Scheme(r.target) \notin Schemes THEN "INVALID_ARG"
  ELSE IF r.target = "http" /\ client.h2 THEN "UNSUPPORTED"
  ELSE IF r.parts = "null" THEN "INVALID_ARG"
  ELSE IF r.target # "http" /\ ~client.tls THEN "UNSUPPORTED"
  ELSE IF r.parts = "bad" THEN "INVALID_ARG" ELSE "OK"

(* Mutant of ReadIdle: 0 is taken for "not set". *)
ReadIdleZeroInherits(r) == IF r.idle \in {Inherit, 0} THEN client.idle ELSE r.idle

ReadIdle(r) == IF r.idle = Inherit THEN client.idle ELSE r.idle

(* Mutant of Template: a proxied client writes every request in absolute form. *)
TemplateAlwaysAbsolute(r) ==
  [scheme |-> Scheme(r.target), named |-> r.target # "badname",
   absolute |-> client.proxied, idle |-> ReadIdle(r)]

Template(r) ==
  [scheme |-> Scheme(r.target), named |-> r.target # "badname",
   absolute |-> client.proxied /\ r.target = "http", idle |-> ReadIdle(r)]

Send ==
  /\ pc = "send"
  /\ calls' = calls + 1
  /\ memory' = Fill /\ local' = CopyPrefix(memory', size, RequestKnown)
  /\ \E r \in RequestValues, arg \in Arguments :
       LET seen == ReadRequest(local', r) IN
       /\ RequestAsked(r) /\ wish' = r
       /\ status' = SendStatus(arg, seen)
       /\ request' = IF status' = "OK" THEN Template(seen) ELSE NoRequest
       /\ Goto(IF status' = "OK" THEN "acquire" ELSE "ready")
  /\ sent' = NotSent /\ error' = "NONE"
  /\ UNCHANGED <<size, asked, native, client, dialVars>>
-----------------------------------------------------------------------------
(* The attempt: a connection from the scheme's pool, or a new one.           *)

Settle(kind) ==
  /\ error' = kind /\ Goto("ready") /\ dialling' = NoConn
  /\ clock' = 0 /\ elapsed' = 0 /\ head' = 0

Still == UNCHANGED <<status, abiVars, native, client, calls, request>>

(* A host that is no server name has a key of its own, with nothing in it. *)
Reuse ==
  /\ pc = "acquire" /\ request.named /\ conns[request.scheme] # NoConn
  /\ Goto("write")
  /\ UNCHANGED dialVars /\ UNCHANGED <<sent, error>> /\ Still

(* Mutant of Address: the TLS connector dials the origin itself. *)
AddressDirectTls(scheme) == IF client.proxied /\ scheme = "http" THEN "proxy" ELSE "origin"

(* The address both connectors dial. *)
Address(scheme) == IF client.proxied THEN "proxy" ELSE "origin"

(* None there, or the one there has closed; the TLS connector refuses a host *)
(* that is no server name before it dials.                                   *)
Connect ==
  /\ pc = "acquire"
  /\ \/ /\ ~request.named
        /\ Settle("TLS_HOSTNAME") /\ UNCHANGED conns
     \/ /\ request.named
        /\ conns' = [conns EXCEPT ![request.scheme] = NoConn]
        /\ dialling' = [NoConn EXCEPT !.to = Address(request.scheme)]
        /\ Goto("dial")
        /\ UNCHANGED <<clock, elapsed, head, error>>
  /\ UNCHANGED sent /\ Still

AfterDial(scheme) ==
  IF scheme = "http" THEN "http" ELSE IF client.proxied THEN "exchange" ELSE "tls"

Dialled ==
  /\ pc = "dial"
  /\ \/ /\ Goto(AfterDial(request.scheme)) /\ clock' = 0
        /\ UNCHANGED <<dialling, elapsed, head, error>>
     \/ Settle("CONNECT")
  /\ UNCHANGED <<conns, sent>> /\ Still

(* Mutant of ReadMore: nothing limits the proxy's answer. *)
ReadMoreUnlimited ==
  /\ head' = head + 1
  /\ UNCHANGED <<pc, dialling, clock, elapsed, error>>

(* Mutant of ReadMore: the timeout is around each read. *)
ReadMoreRestarts ==
  /\ head < HeadLimit /\ head' = head + 1 /\ clock' = 0
  /\ UNCHANGED <<pc, dialling, elapsed, error>>

(* A read of the proxy's answer that does not end it; past the limit it is   *)
(* refused.                                                                  *)
ReadMore ==
  \/ /\ head < HeadLimit /\ head' = head + 1
     /\ UNCHANGED <<pc, dialling, clock, elapsed, error>>
  \/ head = HeadLimit /\ Settle("PROTOCOL")

(* tunnel: a read that ends the answer is looked at before the limit is; any *)
(* 2xx opens the tunnel, anything else and a closed connection do not.       *)
Exchange ==
  /\ pc = "exchange"
  /\ \/ ReadMore
     \/ /\ dialling' = [dialling EXCEPT !.tunnel = TRUE] /\ Goto("tls")
        /\ clock' = 0 /\ head' = 0 /\ UNCHANGED <<elapsed, error>>
     \/ Settle("PROTOCOL")
     \/ Settle("CONNECT")
  /\ UNCHANGED <<conns, sent>> /\ Still

(* tokio::time::timeout around the dial, and another around the exchange. *)
Timed == pc \in {"dial", "exchange"} /\ client.timeout > 0

Tick ==
  /\ Timed /\ clock < client.timeout
  /\ clock' = clock + 1 /\ elapsed' = elapsed + 1
  /\ UNCHANGED <<pc, conns, dialling, head, sent, error>> /\ Still

(* Mutant of TimeoutDue: the exchange has no timeout of its own. *)
TimeoutDueDialOnly == pc = "dial" /\ clock = client.timeout

TimeoutDue == clock = client.timeout

TimesOut ==
  /\ Timed /\ TimeoutDue
  /\ Settle("TIMEOUT")
  /\ UNCHANGED <<conns, sent>> /\ Still

(* classify: what the handshake's failure is called. *)
Classify(fault) ==
  CASE fault = "issuer" -> "TLS_CA"
    [] fault = "name" -> "TLS_HOSTNAME"
    [] fault = "validity" -> "TLS_EXPIRED"
    [] fault = "no protocol" -> "ALPN_NO_H2"
    [] fault = "tls" -> "TLS_OTHER"
    [] fault = "io" -> "CONNECT"

Offered == IF client.h2 THEN {"h2"} ELSE {"h2", "http/1.1"}

(* Mutant of Negotiated: a peer without ALPN passes for an h2 one. *)
NegotiatedUnchecked(alpn) == TRUE

Negotiated(alpn) == client.h2 => alpn = "h2"

(* The handshake, which nothing times: the peer shows a chain of some        *)
(* issuer, which rustls checks against the roots, and picks a protocol that  *)
(* was offered, or none.                                                     *)
TlsHandshake ==
  /\ pc = "tls"
  /\ \/ \E fault \in {"issuer", "name", "validity", "no protocol", "tls", "io"} : Settle(Classify(fault))
     \/ \E issuer \in client.roots, alpn \in Offered \cup {"none"} :
          \/ /\ ~Negotiated(alpn) /\ Settle("ALPN_NO_H2")
          \/ /\ Negotiated(alpn) /\ Goto("http")
             /\ dialling' = [dialling EXCEPT !.issuer = issuer, !.proto = IF alpn = "h2" THEN "h2" ELSE "h1"]
             /\ UNCHANGED <<clock, elapsed, head, error>>
  /\ UNCHANGED <<conns, sent>> /\ Still

(* hyper's handshake, plaintext always HTTP/1.1; the connection joins its    *)
(* pool.                                                                     *)
HttpHandshake ==
  /\ pc = "http"
  /\ \/ /\ conns' = [conns EXCEPT ![request.scheme] =
                       IF request.scheme = "http" THEN [dialling EXCEPT !.proto = "h1"] ELSE dialling]
        /\ dialling' = NoConn /\ Goto("write")
        /\ clock' = 0 /\ elapsed' = 0 /\ head' = 0 /\ UNCHANGED error
     \/ /\ Settle(IF request.scheme = "http" THEN "CONNECT" ELSE "PROTOCOL")
        /\ UNCHANGED conns
  /\ UNCHANGED sent /\ Still

(* HTTP/2 keeps the full URI, HTTP/1.1 has it rewritten unless asked not to. *)
Form(conn) == IF conn.proto = "h2" THEN "full" ELSE IF request.absolute THEN "absolute" ELSE "origin"

Write ==
  /\ pc = "write"
  /\ LET conn == conns[request.scheme] IN
       sent' = [scheme |-> request.scheme, conn |-> conn, form |-> Form(conn), idle |-> request.idle]
  /\ Goto("ready")
  /\ UNCHANGED <<dialVars, error>> /\ Still

Next ==
  \/ OptionsInit \/ ClientNew \/ RequestInit \/ Send
  \/ Reuse \/ Connect \/ Dialled \/ Exchange \/ Tick \/ TimesOut \/ TlsHandshake \/ HttpHandshake \/ Write

Spec == Init /\ [][Next]_vars

(* The runtime's timers run. *)
FairSpec == Spec /\ WF_vars(Tick) /\ WF_vars(TimesOut)
-----------------------------------------------------------------------------
Conn == [to : {"none", "proxy", "origin"}, tunnel : BOOLEAN, issuer : {"none", "system", "custom"},
         proto : {"none", "h1", "h2"}]

(* Every variable keeps its type; the clocks and the tunnel's reads stay     *)
(* within the timeout and the limit.                                         *)
TypeOK ==
  /\ pc \in {"options", "new", "ready", "send", "acquire", "dial", "exchange", "tls", "http", "write", "over"}
  /\ status \in Statuses
  /\ memory \in [Fields -> {"foreign", "junk", "default", "caller"}]
  /\ local \in [Fields -> {"foreign", "junk", "default", "caller"}]
  /\ size \in 0 .. 7 /\ asked \in OptionValues /\ wish \in RequestValues
  /\ native \in BOOLEAN
  /\ client \in [h2 : BOOLEAN, proxied : BOOLEAN, tls : BOOLEAN, roots : SUBSET {"system", "custom"},
                 timeout : AskedTimeouts \cup {0, DefaultTimeout}, idle : {0, 1, 2}]
  /\ calls \in 0 .. MaxRequests
  /\ request \in [scheme : Schemes \cup {"none"}, named : BOOLEAN, absolute : BOOLEAN, idle : {0, 1, 2}]
  /\ conns \in [Schemes -> Conn] /\ dialling \in Conn
  /\ clock \in 0 .. client.timeout /\ elapsed \in Nat /\ head \in 0 .. HeadLimit
  /\ sent \in [scheme : Schemes \cup {"none"}, conn : Conn, form : {"none", "absolute", "origin", "full"},
               idle : {0, 1, 2}]
  /\ error \in Errors

(* Neither init_prefix nor the caller writes past the caller's struct, and   *)
(* no field that copy_prefix has taken from it is uninitialised or lies      *)
(* beyond it, whatever the version the caller was built against.             *)
OwnPrefixOnly ==
  /\ \A i \in Fields : i > size => memory[i] = "foreign"
  /\ pc # "options" => \A i \in Fields : local[i] \in {"default", "caller"}

(* A client made with HTTP2_REQUIRED never writes a request on anything but  *)
(* HTTP/2 over TLS, whatever the peer negotiates and whichever pool the      *)
(* connection comes from.                                                    *)
NoDowngrade ==
  "h2" \in asked.flags /\ sent # NotSent => sent.conn.proto = "h2" /\ sent.conn.issuer # "none"

(* A client that was given a proxy writes to the proxy only, an https        *)
(* request through a CONNECT tunnel; one that was not never does.  An https  *)
(* request is written on TLS, an http one never is.                          *)
Routed ==
  sent # NotSent =>
    /\ sent.conn.to = IF asked.proxy = "null" THEN "origin" ELSE "proxy"
    /\ sent.conn.tunnel <=> asked.proxy # "null" /\ sent.scheme = "https"
    /\ sent.scheme = "https" <=> sent.conn.issuer # "none"

(* The form of the request-target, decided by send from the url and by the   *)
(* attempt from the connection, is the one its reader expects: absolute for  *)
(* a proxy that reads it in the clear, origin for an HTTP/1.1 origin.        *)
FormFitsReader ==
  sent # NotSent =>
    sent.form = IF sent.conn.proto = "h2" THEN "full"
                ELSE IF sent.conn.to = "proxy" /\ ~sent.conn.tunnel THEN "absolute" ELSE "origin"

(* A connection is authenticated by a root the caller asked for: the         *)
(* platform's unless they are replaced, the custom bundle when there is one; *)
(* and a client that speaks TLS trusts all of those, none dropped.           *)
TrustAsAsked ==
  /\ sent.conn.issuer = "system" => "replace" \notin asked.flags
  /\ sent.conn.issuer = "custom" => asked.ca = "good"
  /\ client.tls => /\ asked.ca # "bad"
                   /\ "custom" \in client.roots <=> asked.ca = "good"
                   /\ "system" \in client.roots <=> "replace" \notin asked.flags

(* The read-idle timeout in force is the request's where the request has one *)
(* (0 turns it off) and the client's where it inherits, also when either     *)
(* struct is too old to have the field.                                      *)
IdleAsAsked ==
  sent # NotSent => sent.idle = IF wish.idle = Inherit THEN asked.idle ELSE wish.idle

(* The TCP dial and, through a proxy, the CONNECT exchange have one connect  *)
(* timeout each, which no read of the answer starts again: a proxy that      *)
(* answers a few bytes at a time gains nothing by it.                        *)
PhasesBounded ==
  elapsed <= client.timeout + (IF dialling.to = "proxy" /\ pc # "dial" THEN client.timeout ELSE 0)

(* What the documentation promises of it: connect_timeout_ms covers the dial *)
(* of the proxy and the CONNECT round trip as a whole                        *)
(* (ABI_V4_CLIENT_TLS.md:216).                                               *)
ConnectBounded == elapsed <= client.timeout

(* With a connect timeout, a peer or a proxy that says nothing holds neither *)
(* the dial nor the CONNECT exchange for ever.                               *)
ConnectEnds == Timed ~> pc \notin {"dial", "exchange"}
=============================================================================
