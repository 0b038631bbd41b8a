-------------------------- MODULE Transport_proofs --------------------------
(* Proofs that the safety properties of Transport hold for structs of every  *)
(* size, every timeout, every limit and any number of requests.              *)
EXTENDS Transport, TLAPS

Running == {"acquire", "dial", "exchange", "tls", "http", "write"}

(* The caller's struct: its header is initialised before it is passed on,    *)
(* and there is a call left for it.                                          *)
StructFits ==
  /\ OwnPrefixOnly
  /\ pc \in {"new", "send"} => size >= 2 /\ memory[1] = "default"
  /\ pc = "send" => calls < MaxRequests

(* The client is the one that was asked for.                                 *)
ClientFits ==
  \/ pc \in {"options", "new", "over"} /\ client = NoClient /\ sent = NotSent
  \/ pc \notin {"options", "new"} /\ client = MakeClient(asked)

(* The request being run is the one that was asked for, and it passed send.  *)
RequestFits ==
  pc \in Running =>
    /\ request = Template(wish) /\ request.scheme \in Schemes
    /\ request.scheme = "http" => ~client.h2 /\ request.named
    /\ request.scheme = "https" => client.tls

(* What a connection of the pool for the scheme s is. *)
ConnFits(s, c) ==
  /\ c.to = Address(s) /\ c.tunnel = (client.proxied /\ s = "https")
  /\ s = "http" => c.issuer = "none" /\ c.proto = "h1"
  /\ s = "https" => c.issuer \in client.roots /\ c.proto \in {"h1", "h2"} /\ (client.h2 => c.proto = "h2")

PoolFits ==
  /\ \A s \in Schemes : conns[s] = NoConn \/ ConnFits(s, conns[s])
  /\ pc = "write" => conns[request.scheme] # NoConn
  /\ pc \in {"options", "new"} => \A s \in Schemes : conns[s] = NoConn

(* How far the connection being set up is. *)
DialFits ==
  /\ pc \in {"dial", "exchange", "tls", "http"} => dialling.to = Address(request.scheme)
  /\ pc \in {"dial", "exchange"} => ~dialling.tunnel /\ request.named
  /\ pc \in {"exchange", "tls"} => request.scheme = "https"
  /\ pc = "exchange" => client.proxied
  /\ pc \in {"dial", "exchange", "tls"} => dialling.issuer = "none" /\ dialling.proto = "none"
  /\ pc = "tls" => dialling.tunnel = client.proxied
  /\ pc = "http" /\ request.scheme = "https" => ConnFits("https", dialling)
  /\ pc = "http" /\ request.scheme = "http" => ~dialling.tunnel /\ dialling.issuer = "none"

(* The request as written. *)
SentFits ==
  sent # NotSent =>
    /\ sent.scheme \in Schemes /\ ConnFits(sent.scheme, sent.conn)
    /\ sent.scheme = "http" => ~client.h2
    /\ sent.idle = ReadIdle(wish)
    /\ FormFitsReader

(* What the two timed phases have used of the connect timeout. *)
ClockFits ==
  /\ pc = "dial" => elapsed = clock
  /\ pc = "exchange" => elapsed <= client.timeout + clock
  /\ pc \in {"tls", "http"} => elapsed <= client.timeout + (IF client.proxied THEN client.timeout ELSE 0)
  /\ pc \notin {"dial", "exchange", "tls", "http"} => elapsed = 0
  /\ pc \notin {"dial", "exchange"} => clock = 0

IInv ==
  TypeOK /\ StructFits /\ ClientFits /\ RequestFits /\ PoolFits /\ DialFits /\ SentFits /\ ClockFits
-----------------------------------------------------------------------------
(* What the callee reads is what the caller meant: a field is the caller's   *)
(* where its struct has it, and the default elsewhere.                       *)
LEMMA ReadsOptions ==
  ASSUME size \in Fields, size >= 2, NEW o \in OptionValues, OptionsAsked(o)
  PROVE ReadOptions(CopyPrefix(Fill, size, OptionsKnown), o) = o
<1> DEFINE c == CopyPrefix(Fill, size, OptionsKnown)
<1>1. \A i \in 2 .. 6 : c[i] = IF i <= size THEN "caller" ELSE "default"
  BY DEF CopyPrefix, Fill, Fields, OptionsKnown
<1> HIDE DEF c
<1>2. /\ Read(c, 2, o.flags, {}) = o.flags
      /\ Read(c, 3, o.timeout, DefaultTimeout) = o.timeout
      /\ Read(c, 4, o.idle, DefaultOptions.idle) = o.idle
      /\ Read(c, 5, o.ca, "null") = o.ca
      /\ Read(c, 6, o.proxy, "null") = o.proxy
  BY <1>1 DEF Read, OptionsAsked, Fields
<1>3. o = [flags |-> o.flags, timeout |-> o.timeout, idle |-> o.idle, ca |-> o.ca, proxy |-> o.proxy]
  BY DEF OptionValues
<1> QED
  BY <1>2, <1>3 DEF ReadOptions, c

LEMMA ReadsRequest ==
  ASSUME size \in Fields, size >= 2, NEW r \in RequestValues, RequestAsked(r)
  PROVE ReadRequest(CopyPrefix(Fill, size, RequestKnown), r) = r
<1> DEFINE c == CopyPrefix(Fill, size, RequestKnown)
<1>1. \A i \in 2 .. 4 : c[i] = IF i <= size THEN "caller" ELSE "default"
  BY DEF CopyPrefix, Fill, Fields, RequestKnown
<1> HIDE DEF c
<1>2. /\ Read(c, 2, r.target, "none") = r.target
      /\ Read(c, 3, r.parts, "ok") = r.parts
      /\ Read(c, 4, r.idle, Inherit) = r.idle
  BY <1>1 DEF Read, RequestAsked, Fields
<1>3. r = [target |-> r.target, parts |-> r.parts, idle |-> r.idle]
  BY DEF RequestValues
<1> QED
  BY <1>2, <1>3 DEF ReadRequest, c

Clients == [h2 : BOOLEAN, proxied : BOOLEAN, tls : BOOLEAN, roots : SUBSET {"system", "custom"},
            timeout : AskedTimeouts \cup {0, DefaultTimeout}, idle : {0, 1, 2}]

(* The client made from any options is a client. *)
LEMMA MadeClient == \A o \in OptionValues : MakeClient(o) \in Clients
<1> SUFFICES ASSUME NEW o \in OptionValues PROVE MakeClient(o) \in Clients
  OBVIOUS
<1>1. ("h2" \in o.flags) \in BOOLEAN /\ (o.proxy # "null") \in BOOLEAN /\ (TlsConfig(o) = "NONE") \in BOOLEAN
  OBVIOUS
<1>2. Roots(o) \in SUBSET {"system", "custom"}
  BY DEF Roots
<1>3. o.timeout \in AskedTimeouts \cup {0, DefaultTimeout} /\ o.idle \in {0, 1, 2}
  BY DEF OptionValues
<1> QED
  BY <1>1, <1>2, <1>3 DEF MakeClient, Clients

(* hyper4k_client_new returns a client made from what was asked, or none. *)
LEMMA NewCases ==
  ASSUME TypeOK, StructFits, ClientNew
  PROVE /\ asked' \in OptionValues /\ status' \in Statuses
        /\ UNCHANGED <<size, wish, native, calls, request, dialVars, sent, error>>
        /\ \/ pc' = "ready" /\ (client = MakeClient(asked))'
           \/ pc' = "over" /\ client' = NoClient
<1>1. PICK o \in OptionValues, arg \in Arguments, started \in BOOLEAN :
        LET seen == ReadOptions(local', o) IN
        /\ OptionsAsked(o) /\ asked' = o
        /\ status' = NewStatus(arg, seen, started)
        /\ client' = IF status' = "OK" THEN MakeClient(seen) ELSE NoClient
        /\ Goto(IF status' = "OK" THEN "ready" ELSE "over")
  BY DEF ClientNew
<1>2. local' = CopyPrefix(Fill, size, OptionsKnown) /\ native' = native
      /\ UNCHANGED <<size, wish, native, calls, request, dialVars, sent, error>> /\ pc = "new"
  BY DEF ClientNew
<1>3. size \in Fields /\ size >= 2
  BY <1>2 DEF TypeOK, StructFits, Fields
<1>4. ReadOptions(local', o) = o
  BY <1>1, <1>2, <1>3, ReadsOptions
<1>5. MakeClient(asked)' = MakeClient(o)
  BY <1>1, <1>2 DEF MakeClient, TlsConfig, Roots
<1>6. NewStatus(arg, o, started) \in Statuses
  BY DEF NewStatus, ValidateHeader, Statuses
<1> QED
  BY <1>1, <1>2, <1>4, <1>5, <1>6 DEF Goto

(* hyper4k_client_send runs the request that was asked, or none. *)
LEMMA SendCases ==
  ASSUME TypeOK, StructFits, Send
  PROVE /\ wish' \in RequestValues /\ status' \in Statuses
        /\ UNCHANGED <<size, asked, native, client, dialVars>>
        /\ \/ pc' = "ready" /\ request' = NoRequest
           \/ /\ pc' = "acquire" /\ (request = Template(wish))' /\ Scheme(wish'.target) \in Schemes
              /\ wish'.target = "http" => ~client.h2
              /\ wish'.target # "http" => client.tls
<1>1. PICK r \in RequestValues, arg \in Arguments :
        LET seen == ReadRequest(local', r) IN
        /\ RequestAsked(r) /\ wish' = r
        /\ status' = SendStatus(arg, seen)
        /\ request' = IF status' = "OK" THEN Template(seen) ELSE NoRequest
        /\ Goto(IF status' = "OK" THEN "acquire" ELSE "ready")
  BY DEF Send
<1>2. local' = CopyPrefix(Fill, size, RequestKnown) /\ pc = "send"
      /\ UNCHANGED <<size, asked, native, client, dialVars>>
  BY DEF Send
<1>3. size \in Fields /\ size >= 2
  BY <1>2 DEF TypeOK, StructFits, Fields
<1>4. ReadRequest(local', r) = r
  BY <1>1, <1>2, <1>3, ReadsRequest
<1>5. Template(wish)' = Template(r)
  BY <1>1, <1>2 DEF Template, ReadIdle
<1>6. SendStatus(arg, r) \in Statuses
  BY DEF SendStatus, ValidateHeader, Statuses
<1>7. SendStatus(arg, r) = "OK" =>
        /\ Scheme(r.target) \in Schemes
        /\ r.target = "http" => ~client.h2
        /\ r.target # "http" => client.tls
  BY DEF SendStatus
<1> QED
  BY <1>1, <1>2, <1>4, <1>5, <1>6, <1>7 DEF Goto

(* The steps of an accepted request: they leave the structs, the client and  *)
(* the request alone.                                                        *)
Attempt ==
  Reuse \/ Connect \/ Dialled \/ Exchange \/ Tick \/ TimesOut \/ TlsHandshake \/ HttpHandshake \/ Write

LEMMA AttemptControl == Attempt => Still /\ pc \in Running /\ pc' \in Running \cup {"ready"}
<1> USE DEF Running, Goto, Settle
<1>1. Reuse \/ Connect \/ Write => Still /\ pc \in Running /\ pc' \in Running \cup {"ready"}
  BY DEF Reuse, Connect, Write
<1>2. Dialled \/ HttpHandshake => Still /\ pc \in Running /\ pc' \in Running \cup {"ready"}
  BY DEF Dialled, AfterDial, HttpHandshake
<1>3. Exchange => Still /\ pc \in Running /\ pc' \in Running \cup {"ready"}
  BY DEF Exchange, ReadMore
<1>4. Tick \/ TimesOut => Still /\ pc \in Running /\ pc' \in Running \cup {"ready"}
  BY DEF Tick, TimesOut, Timed
<1>5. TlsHandshake => Still /\ pc \in Running /\ pc' \in Running \cup {"ready"}
  <2>1. ASSUME NEW kind, Settle(kind) PROVE pc' = "ready"
    BY <2>1
  <2> HIDE DEF Settle
  <2>2. TlsHandshake => Still /\ pc = "tls"
    BY Zenon DEF TlsHandshake
  <2>3. TlsHandshake => pc' \in {"ready", "http"}
    BY <2>1, Zenon DEF TlsHandshake
  <2> QED
    BY <2>2, <2>3
<1> QED
  BY <1>1, <1>2, <1>3, <1>4, <1>5 DEF Attempt

(* The structs. *)
LEMMA StructStep == TypeOK /\ StructFits /\ [Next]_vars => StructFits'
<1> SUFFICES ASSUME TypeOK, StructFits, [Next]_vars PROVE StructFits'
  OBVIOUS
<1> USE TransportConstants DEF StructFits, OwnPrefixOnly, TypeOK, Fields, Goto
<1>1. ASSUME OptionsInit PROVE StructFits'
  BY <1>1 DEF OptionsInit, InitStruct, InitPrefix, OptionsMin, OptionsKnown
<1>2. ASSUME RequestInit PROVE StructFits'
  BY <1>2 DEF RequestInit, InitStruct, InitPrefix, RequestMin, RequestKnown
<1>3. ASSUME ClientNew PROVE StructFits'
  <2>1. memory' = Fill /\ local' = CopyPrefix(Fill, size, OptionsKnown) /\ size' = size /\ pc = "new"
    BY <1>3 DEF ClientNew
  <2>2. pc' \notin {"new", "send"}
    BY <1>3, NewCases
  <2> QED
    BY <2>1, <2>2 DEF Fill, CopyPrefix, OptionsKnown
<1>4. ASSUME Send PROVE StructFits'
  <2>1. memory' = Fill /\ local' = CopyPrefix(Fill, size, RequestKnown) /\ size' = size /\ pc = "send"
    BY <1>4 DEF Send
  <2>2. pc' \notin {"new", "send"}
    BY <1>4, SendCases
  <2> QED
    BY <2>1, <2>2 DEF Fill, CopyPrefix, RequestKnown
<1>5. ASSUME Attempt PROVE StructFits'
  BY <1>5, AttemptControl DEF Still, abiVars, Running
<1>6. ASSUME UNCHANGED vars PROVE StructFits'
  BY <1>6 DEF vars, abiVars
<1> QED
  BY <1>1, <1>2, <1>3, <1>4, <1>5, <1>6 DEF Next, Attempt

(* The client and the request. *)
LEMMA ClientStep == TypeOK /\ StructFits /\ ClientFits /\ [Next]_vars => ClientFits'
<1> SUFFICES ASSUME TypeOK, StructFits, ClientFits, [Next]_vars PROVE ClientFits'
  OBVIOUS
<1> USE DEF ClientFits, Goto
<1>1. ASSUME UNCHANGED <<client, asked, native>> PROVE MakeClient(asked)' = MakeClient(asked)
  BY <1>1 DEF MakeClient, TlsConfig, Roots
<1>2. ASSUME OptionsInit PROVE ClientFits'
  BY <1>1, <1>2 DEF OptionsInit, InitStruct
<1>3. ASSUME RequestInit PROVE ClientFits'
  BY <1>1, <1>3 DEF RequestInit, InitStruct
<1>4. ASSUME ClientNew PROVE ClientFits'
  <2>1. pc = "new" /\ sent' = sent
    BY <1>4 DEF ClientNew
  <2> QED
    BY <1>4, <2>1, NewCases
<1>5. ASSUME Send PROVE ClientFits'
  <2>1. pc = "send"
    BY <1>5 DEF Send
  <2> QED
    BY <1>1, <1>5, <2>1, SendCases
<1>6. ASSUME Attempt PROVE ClientFits'
  BY <1>1, <1>6, AttemptControl DEF Still, abiVars, Running
<1>7. ASSUME UNCHANGED vars PROVE ClientFits'
  BY <1>1, <1>7 DEF vars, abiVars
<1> QED
  BY <1>2, <1>3, <1>4, <1>5, <1>6, <1>7 DEF Next, Attempt

LEMMA RequestStep == TypeOK /\ StructFits /\ RequestFits /\ [Next]_vars => RequestFits'
<1> SUFFICES ASSUME TypeOK, StructFits, RequestFits, [Next]_vars PROVE RequestFits'
  OBVIOUS
<1> USE DEF RequestFits, Goto, Running
<1>1. ASSUME UNCHANGED <<client, wish>> PROVE Template(wish)' = Template(wish)
  BY <1>1 DEF Template, ReadIdle
<1>2. ASSUME OptionsInit \/ RequestInit PROVE RequestFits'
  <2>1. ASSUME OptionsInit PROVE pc' \in {"over", "new"}
    BY <2>1 DEF OptionsInit, InitStruct
  <2>2. ASSUME RequestInit PROVE pc' \in {"over", "send"}
    BY <2>2 DEF RequestInit, InitStruct
  <2> QED
    BY <1>2, <2>1, <2>2
<1>3. ASSUME ClientNew PROVE RequestFits'
  BY <1>3, NewCases
<1>4. ASSUME Send PROVE RequestFits'
  <2>1. CASE pc' = "ready"
    BY <2>1
  <2>2. CASE pc' # "ready"
    <3>1. /\ (request = Template(wish))' /\ Scheme(wish'.target) \in Schemes /\ client' = client
          /\ wish'.target = "http" => ~client.h2
          /\ wish'.target # "http" => client.tls
      BY <1>4, <2>2, SendCases
    <3>2. request'.scheme = Scheme(wish'.target) /\ request'.named = (wish'.target # "badname")
      BY <3>1 DEF Template
    <3> QED
      BY <3>1, <3>2, Zenon DEF Scheme, Schemes
  <2> QED
    BY <2>1, <2>2
<1>5. ASSUME Attempt PROVE RequestFits'
  BY <1>1, <1>5, AttemptControl DEF Still, abiVars
<1>6. ASSUME UNCHANGED vars PROVE RequestFits'
  BY <1>1, <1>6, Zenon DEF vars, abiVars
<1> QED
  BY <1>2, <1>3, <1>4, <1>5, <1>6 DEF Next, Attempt

(* A connection fits for as long as the client is the same. *)
LEMMA FitsStays ==
  ASSUME client' = client, NEW s, NEW c
  PROVE ConnFits(s, c)' = ConnFits(s, c)
BY DEF ConnFits, Address

(* The pool: what joins it has been set up for this client. *)
LEMMA PoolStep ==
  TypeOK /\ StructFits /\ RequestFits /\ PoolFits /\ DialFits /\ [Next]_vars => PoolFits'
<1> SUFFICES ASSUME TypeOK, StructFits, RequestFits, PoolFits, DialFits, [Next]_vars PROVE PoolFits'
  OBVIOUS
<1> USE DEF PoolFits, Goto
<1>1. ASSUME UNCHANGED <<client, conns>>, pc' \notin {"write", "options", "new"} PROVE PoolFits'
  BY <1>1, FitsStays
<1>2. ASSUME OptionsInit PROVE PoolFits'
  <2>1. pc = "options" /\ UNCHANGED <<client, conns>> /\ pc' # "write"
    BY <1>2 DEF OptionsInit, InitStruct, dialVars
  <2> QED
    BY <2>1
<1>3. ASSUME RequestInit PROVE PoolFits'
  <2>1. UNCHANGED <<client, conns>> /\ pc' \in {"over", "send"}
    BY <1>3 DEF RequestInit, InitStruct, dialVars
  <2> QED
    BY <1>1, <2>1
<1>4. ASSUME ClientNew PROVE PoolFits'
  <2>1. pc = "new" /\ conns' = conns
    BY <1>4 DEF ClientNew, dialVars
  <2> QED
    BY <1>4, <2>1, NewCases
<1>5. ASSUME Send PROVE PoolFits'
  <2>1. UNCHANGED <<client, conns>> /\ pc' \in {"ready", "acquire"}
    BY <1>5, SendCases DEF dialVars
  <2> QED
    BY <1>1, <2>1
<1>6. ASSUME Attempt PROVE PoolFits'
  <2>1. Still /\ pc \in Running /\ pc' \in Running \cup {"ready"}
    BY <1>6, AttemptControl
  <2>2. CASE Reuse
    BY <2>1, <2>2, FitsStays DEF Reuse, dialVars, Still
  <2>3. CASE Connect
    <3>1. conns' \in {conns, [conns EXCEPT ![request.scheme] = NoConn]} /\ pc' \in {"ready", "dial"}
      BY <2>3 DEF Connect, Settle
    <3> QED
      BY <2>1, <3>1, FitsStays DEF TypeOK, Still
  <2>4. CASE HttpHandshake
    <3>1. CASE conns' = conns /\ pc' = "ready"
      BY <1>1, <2>1, <3>1 DEF Still
    <3>2. CASE ~(conns' = conns /\ pc' = "ready")
      <4> DEFINE new == IF request.scheme = "http" THEN [dialling EXCEPT !.proto = "h1"] ELSE dialling
      <4>1. conns' = [conns EXCEPT ![request.scheme] = new] /\ pc = "http" /\ pc' = "write"
        BY <2>4, <3>2 DEF HttpHandshake, Settle
      <4>2. request.scheme \in Schemes
        BY <2>1 DEF RequestFits
      <4>3. ConnFits(request.scheme, new) /\ new # NoConn
        <5>1. dialling \in Conn /\ dialling.to = Address(request.scheme)
          BY <4>1 DEF TypeOK, DialFits
        <5>2. CASE request.scheme = "http"
          BY <4>1, <5>1, <5>2 DEF DialFits, ConnFits, Conn, NoConn, Address
        <5>3. CASE request.scheme = "https"
          BY <4>1, <5>1, <5>3 DEF DialFits, NoConn, Address
        <5> QED
          BY <4>2, <5>2, <5>3 DEF Schemes
      <4> HIDE DEF new
      <4> QED
        BY <2>1, <4>1, <4>2, <4>3, FitsStays DEF TypeOK, Still
    <3> QED
      BY <3>1, <3>2
  <2>5. ASSUME Dialled \/ Exchange \/ Tick \/ TimesOut \/ TlsHandshake \/ Write
        PROVE UNCHANGED conns /\ pc' # "write"
    <3>1. ASSUME Dialled \/ Tick \/ TimesOut \/ Write PROVE UNCHANGED conns /\ pc' # "write"
      BY <3>1 DEF Dialled, AfterDial, Tick, TimesOut, Timed, Write, dialVars, Settle
    <3>2. ASSUME Exchange PROVE UNCHANGED conns /\ pc' # "write"
      BY <3>2 DEF Exchange, ReadMore, Settle
    <3>3. ASSUME TlsHandshake PROVE UNCHANGED conns /\ pc' # "write"
      BY <3>3, Zenon DEF TlsHandshake, Settle
    <3> QED
      BY <2>5, <3>1, <3>2, <3>3
  <2> QED
    BY <1>1, <1>6, <2>1, <2>2, <2>3, <2>4, <2>5 DEF Attempt, Still, Running
<1>7. ASSUME UNCHANGED vars PROVE PoolFits'
  BY <1>7, FitsStays DEF vars, dialVars
<1> QED
  BY <1>2, <1>3, <1>4, <1>5, <1>6, <1>7 DEF Next, Attempt

(* The connection being set up. *)
LEMMA DialStep ==
  TypeOK /\ StructFits /\ RequestFits /\ DialFits /\ [Next]_vars => DialFits'
<1> SUFFICES ASSUME TypeOK, StructFits, RequestFits, DialFits, [Next]_vars PROVE DialFits'
  OBVIOUS
<1> USE DEF DialFits
<1>1. ASSUME pc' \notin {"dial", "exchange", "tls", "http"} PROVE DialFits'
  BY <1>1
<1>2. ASSUME OptionsInit \/ RequestInit PROVE DialFits'
  BY <1>1, <1>2, Zenon DEF OptionsInit, RequestInit, InitStruct, Goto
<1>3. ASSUME ClientNew PROVE DialFits'
  BY <1>1, <1>3, NewCases
<1>4. ASSUME Send PROVE DialFits'
  BY <1>1, <1>4, SendCases
<1>5. ASSUME Attempt PROVE DialFits'
  <2>1. UNCHANGED <<client, request>> /\ request.scheme \in Schemes /\ (request.scheme = "http" => request.named)
    BY <1>5, AttemptControl DEF Still, RequestFits
  <2>2. \A s : Address(s)' = Address(s)
    BY <2>1 DEF Address
  <2> USE DEF Goto
  <2>3. CASE Reuse \/ HttpHandshake \/ TimesOut \/ Write
    BY <1>1, <2>3 DEF Reuse, HttpHandshake, TimesOut, Write, Settle
  <2>4. CASE Connect
    <3>1. CASE pc' = "dial"
      <4>1. dialling' = [NoConn EXCEPT !.to = Address(request.scheme)] /\ request.named
        BY <2>4, <3>1 DEF Connect, Settle
      <4> QED
        BY <2>1, <2>2, <3>1, <4>1 DEF NoConn
    <3>2. CASE pc' # "dial"
      BY <1>1, <2>4, <3>2 DEF Connect, Settle
    <3> QED
      BY <3>1, <3>2
  <2>5. CASE Dialled
    <3>1. CASE pc' = "ready"
      BY <1>1, <3>1
    <3>2. CASE pc' # "ready"
      <4>1. pc = "dial" /\ pc' = AfterDial(request.scheme) /\ dialling' = dialling
        BY <2>5, <3>2 DEF Dialled, Settle
      <4> QED
        BY <2>1, <2>2, <4>1 DEF AfterDial, Schemes, TypeOK, Conn
    <3> QED
      BY <3>1, <3>2
  <2>6. CASE Exchange
    <3>1. pc = "exchange"
      BY <2>6 DEF Exchange
    <3>2. CASE pc' = "ready"
      BY <1>1, <3>2
    <3>3. CASE pc' = pc /\ dialling' = dialling
      BY <2>1, <2>2, <3>1, <3>3
    <3>4. CASE pc' = "tls" /\ dialling' = [dialling EXCEPT !.tunnel = TRUE]
      BY <2>1, <2>2, <3>1, <3>4, Zenon DEF TypeOK, Conn
    <3> QED
      BY <2>6, <3>2, <3>3, <3>4 DEF Exchange, ReadMore, Settle
  <2>7. CASE Tick
    BY <2>1, <2>2, <2>7 DEF Tick, Timed
  <2>8. CASE TlsHandshake
    <3>1. CASE pc' = "ready"
      BY <1>1, <3>1
    <3>2. CASE pc' # "ready"
      <4>1. PICK issuer \in client.roots, alpn \in Offered \cup {"none"} :
              /\ Negotiated(alpn) /\ pc' = "http"
              /\ dialling' = [dialling EXCEPT !.issuer = issuer, !.proto = IF alpn = "h2" THEN "h2" ELSE "h1"]
        BY <2>8, <3>2, Zenon DEF TlsHandshake, Settle
      <4>2. pc = "tls" /\ request.scheme = "https"
        BY <2>8, Zenon DEF TlsHandshake
      <4>3. ConnFits("https", dialling')
        BY <4>1, <4>2 DEF ConnFits, TypeOK, Conn, Negotiated, Address
      <4> QED
        BY <2>1, <2>2, <4>1, <4>2, <4>3 DEF TypeOK, Conn, ConnFits
    <3> QED
      BY <3>1, <3>2
  <2> QED
    BY <1>5, <2>3, <2>4, <2>5, <2>6, <2>7, <2>8 DEF Attempt
<1>6. ASSUME UNCHANGED vars PROVE DialFits'
  <2>1. UNCHANGED <<pc, client, request, dialling>>
    BY <1>6 DEF vars, dialVars
  <2> QED
    BY <2>1 DEF Address, ConnFits
<1> QED
  BY <1>2, <1>3, <1>4, <1>5, <1>6 DEF Next, Attempt

(* The request as written. *)
LEMMA SentStep ==
  TypeOK /\ StructFits /\ ClientFits /\ RequestFits /\ PoolFits /\ SentFits /\ [Next]_vars => SentFits'
<1> SUFFICES ASSUME TypeOK, StructFits, ClientFits, RequestFits, PoolFits, SentFits, [Next]_vars PROVE SentFits'
  OBVIOUS
<1>1. ASSUME UNCHANGED <<sent, client, wish>> PROVE SentFits'
  BY <1>1, FitsStays DEF SentFits, FormFitsReader, ReadIdle
<1>2. ASSUME OptionsInit \/ RequestInit PROVE SentFits'
  BY <1>1, <1>2 DEF OptionsInit, RequestInit
<1>3. ASSUME ClientNew PROVE SentFits'
  BY <1>3 DEF ClientNew, ClientFits, SentFits
<1>4. ASSUME Send PROVE SentFits'
  BY <1>4 DEF Send, SentFits
<1>5. ASSUME Write PROVE SentFits'
  <2> DEFINE conn == conns[request.scheme]
  <2>1. /\ sent' = [scheme |-> request.scheme, conn |-> conn, form |-> Form(conn), idle |-> request.idle]
        /\ pc = "write" /\ UNCHANGED <<client, wish>>
    BY <1>5 DEF Write, Still, abiVars
  <2>2. /\ request = Template(wish) /\ request.scheme \in Schemes
        /\ request.scheme = "http" => ~client.h2
        /\ ConnFits(request.scheme, conn)
    BY <2>1 DEF RequestFits, PoolFits, Running
  <2>3. request.idle = ReadIdle(wish) /\ request.absolute = (client.proxied /\ request.scheme = "http")
    <3>1. /\ request.scheme = Scheme(wish.target) /\ request.idle = ReadIdle(wish)
          /\ request.absolute = (client.proxied /\ wish.target = "http")
      BY <2>2 DEF Template
    <3> QED
      BY <3>1 DEF Scheme
  <2>4. /\ sent'.scheme = request.scheme /\ sent'.conn = conn
        /\ sent'.form = Form(conn) /\ sent'.idle = request.idle
    BY <2>1
  <2>5. Form(conn) = IF conn.proto = "h2" THEN "full"
                     ELSE IF conn.to = "proxy" /\ ~conn.tunnel THEN "absolute" ELSE "origin"
    BY <2>2, <2>3, Zenon DEF Form, ConnFits, Address, Schemes
  <2>6. FormFitsReader'
    BY <2>4, <2>5 DEF FormFitsReader
  <2>7. ReadIdle(wish)' = ReadIdle(wish)
    BY <2>1 DEF ReadIdle
  <2>8. ConnFits(sent.scheme, sent.conn)'
    BY <2>1, <2>2, <2>4 DEF ConnFits, Address
  <2> QED
    BY <2>1, <2>2, <2>3, <2>4, <2>6, <2>7, <2>8 DEF SentFits
<1>6. ASSUME Attempt, ~Write PROVE SentFits'
  <2>1. Still
    BY <1>6, AttemptControl
  <2>2. sent' = sent
    BY <1>6, Zenon DEF Attempt, Reuse, Connect, Dialled, Exchange, Tick, TimesOut, TlsHandshake, HttpHandshake
  <2> QED
    BY <1>1, <2>1, <2>2 DEF Still, abiVars
<1>7. ASSUME UNCHANGED vars PROVE SentFits'
  BY <1>1, <1>7 DEF vars, abiVars
<1> QED
  BY <1>2, <1>3, <1>4, <1>5, <1>6, <1>7 DEF Next, Attempt

(* The clocks of the two timed phases. *)
LEMMA ClockStep ==
  TypeOK /\ StructFits /\ DialFits /\ ClockFits /\ [Next]_vars => ClockFits'
<1> SUFFICES ASSUME TypeOK, StructFits, DialFits, ClockFits, [Next]_vars PROVE ClockFits'
  OBVIOUS
<1>1. client.timeout \in Nat /\ clock \in Nat /\ elapsed \in Nat /\ clock <= client.timeout
  <2>1. client \in Clients /\ clock \in 0 .. client.timeout /\ elapsed \in Nat
    BY DEF TypeOK, Clients
  <2>2. AskedTimeouts \cup {0, DefaultTimeout} \subseteq Nat /\ client.timeout \in AskedTimeouts \cup {0, DefaultTimeout}
    BY <2>1, TransportConstants DEF Clients
  <2> QED
    BY <2>1, <2>2
<1>2. ASSUME pc \notin {"dial", "exchange", "tls", "http"}, pc' \notin {"dial", "exchange", "tls", "http"},
             UNCHANGED <<clock, elapsed>>
      PROVE ClockFits'
  BY <1>2 DEF ClockFits
<1>3. ASSUME NEW kind, Settle(kind) PROVE ClockFits'
  BY <1>3 DEF ClockFits, Settle, Goto
<1>4. ASSUME OptionsInit \/ RequestInit PROVE ClockFits'
  <2>1. pc \in {"options", "ready"} /\ pc' \in {"over", "new", "send"} /\ UNCHANGED <<clock, elapsed>>
    BY <1>4, Zenon DEF OptionsInit, RequestInit, InitStruct, Goto, dialVars
  <2> QED
    BY <1>2, <2>1
<1>5. ASSUME ClientNew PROVE ClockFits'
  <2>1. pc = "new"
    BY <1>5 DEF ClientNew
  <2> QED
    BY <1>2, <1>5, <2>1, NewCases DEF dialVars
<1>6. ASSUME Send PROVE ClockFits'
  <2>1. pc = "send"
    BY <1>6 DEF Send
  <2> QED
    BY <1>2, <1>6, <2>1, SendCases DEF dialVars
<1>7. ASSUME Attempt PROVE ClockFits'
  <2>1. UNCHANGED <<client, request>>
    BY <1>7, AttemptControl DEF Still
  <2>2. CASE Reuse \/ Write
    BY <1>2, <2>2 DEF Reuse, Write, Goto, dialVars
  <2>3. CASE Connect
    <3>1. CASE pc' = "dial" /\ pc = "acquire" /\ UNCHANGED <<clock, elapsed>>
      BY <3>1 DEF ClockFits
    <3> QED
      BY <1>3, <2>3, <3>1 DEF Connect, Goto
  <2>4. CASE Dialled
    <3>1. CASE pc = "dial" /\ pc' = AfterDial(request.scheme) /\ clock' = 0 /\ UNCHANGED elapsed
      BY <1>1, <2>1, <3>1 DEF ClockFits, AfterDial
    <3> QED
      BY <1>3, <2>4, <3>1 DEF Dialled, Goto
  <2>5. CASE Exchange
    <3>1. pc = "exchange" /\ client.proxied
      BY <2>5 DEF Exchange, DialFits
    <3>2. CASE UNCHANGED <<pc, clock, elapsed>>
      BY <2>1, <3>1, <3>2 DEF ClockFits
    <3>3. CASE pc' = "tls" /\ clock' = 0 /\ UNCHANGED elapsed
      BY <1>1, <2>1, <3>1, <3>3 DEF ClockFits
    <3> QED
      BY <1>3, <2>5, <3>2, <3>3, Zenon DEF Exchange, ReadMore, Goto
  <2>6. CASE Tick
    <3>1. /\ pc \in {"dial", "exchange"} /\ pc' = pc
          /\ clock' = clock + 1 /\ elapsed' = elapsed + 1
      BY <2>6 DEF Tick, Timed
    <3> QED
      BY <1>1, <2>1, <3>1 DEF ClockFits
  <2>7. CASE TimesOut
    BY <1>3, <2>7 DEF TimesOut
  <2>8. CASE TlsHandshake
    <3>1. CASE pc = "tls" /\ pc' = "http" /\ UNCHANGED <<clock, elapsed>>
      BY <2>1, <3>1 DEF ClockFits
    <3> QED
      BY <1>3, <2>8, <3>1, Zenon DEF TlsHandshake, Goto
  <2>9. CASE HttpHandshake
    <3>1. CASE pc' = "write" /\ clock' = 0 /\ elapsed' = 0
      BY <3>1 DEF ClockFits
    <3> QED
      BY <1>3, <2>9, <3>1, Zenon DEF HttpHandshake, Goto
  <2> QED
    BY <1>7, <2>2, <2>3, <2>4, <2>5, <2>6, <2>7, <2>8, <2>9 DEF Attempt
<1>8. ASSUME UNCHANGED vars PROVE ClockFits'
  BY <1>8, Zenon DEF vars, dialVars, ClockFits
<1> QED
  BY <1>4, <1>5, <1>6, <1>7, <1>8 DEF Next, Attempt

(* TypeOK in two parts: what the calls write and what the attempt writes. *)
CallTypes ==
  /\ status \in Statuses
  /\ memory \in [Fields -> {"foreign", "junk", "default", "caller"}]
  /\ local \in [Fields -> {"foreign", "junk", "default", "caller"}]
  /\ size \in 0 .. 7 /\ asked \in OptionValues /\ wish \in RequestValues
  /\ native \in BOOLEAN /\ client \in Clients /\ calls \in 0 .. MaxRequests
  /\ request \in [scheme : Schemes \cup {"none"}, named : BOOLEAN, absolute : BOOLEAN, idle : {0, 1, 2}]

AttemptTypes ==
  /\ pc \in {"options", "new", "ready", "send", "acquire", "dial", "exchange", "tls", "http", "write", "over"}
  /\ conns \in [Schemes -> Conn] /\ dialling \in Conn
  /\ clock \in 0 .. client.timeout /\ elapsed \in Nat /\ head \in 0 .. HeadLimit
  /\ sent \in [scheme : Schemes \cup {"none"}, conn : Conn, form : {"none", "absolute", "origin", "full"},
               idle : {0, 1, 2}]
  /\ error \in Errors

LEMMA TypeParts == TypeOK <=> CallTypes /\ AttemptTypes
BY Zenon DEF TypeOK, CallTypes, AttemptTypes, Clients

LEMMA CallTypesStep ==
  TypeOK /\ StructFits /\ [Next]_vars => CallTypes'
<1> SUFFICES ASSUME TypeOK, StructFits, [Next]_vars PROVE CallTypes'
  OBVIOUS
<1> USE TypeParts DEF CallTypes
<1>1. ASSUME NEW n \in Sizes, NEW least, NEW known, NEW next, InitStruct(n, least, known, next)
      PROVE /\ status' \in Statuses /\ size' \in 0 .. 7
            /\ memory' \in [Fields -> {"foreign", "junk", "default", "caller"}]
            /\ local' \in [Fields -> {"foreign", "junk", "default", "caller"}]
  BY <1>1, TransportConstants DEF InitStruct, InitPrefix, Statuses, Fields
<1>2. ASSUME OptionsInit PROVE CallTypes'
  BY <1>1, <1>2 DEF OptionsInit
<1>3. ASSUME RequestInit PROVE CallTypes'
  BY <1>1, <1>3 DEF RequestInit
<1>4. ASSUME ClientNew PROVE CallTypes'
  <2>1. memory' = Fill /\ local' = CopyPrefix(Fill, size, OptionsKnown)
    BY <1>4 DEF ClientNew
  <2>2. memory' \in [Fields -> {"foreign", "junk", "default", "caller"}]
        /\ local' \in [Fields -> {"foreign", "junk", "default", "caller"}]
    BY <2>1 DEF Fill, CopyPrefix
  <2>3. NoClient \in Clients
    BY DEF NoClient, Clients
  <2>4. client' \in Clients
    <3>1. asked' \in OptionValues /\ native' = native /\ (client' = MakeClient(asked)' \/ client' = NoClient)
      BY <1>4, NewCases, Zenon
    <3>2. MakeClient(asked)' = MakeClient(asked')
      BY <3>1 DEF MakeClient, TlsConfig, Roots
    <3>3. MakeClient(asked') \in Clients
      BY <3>1, MadeClient, Zenon
    <3> QED
      BY <2>3, <3>1, <3>2, <3>3, Zenon
  <2> QED
    BY <1>4, <2>2, <2>4, NewCases
<1>5. ASSUME Send PROVE CallTypes'
  <2>1. memory' = Fill /\ local' = CopyPrefix(Fill, size, RequestKnown) /\ calls' = calls + 1
    BY <1>5 DEF Send
  <2>2. memory' \in [Fields -> {"foreign", "junk", "default", "caller"}]
        /\ local' \in [Fields -> {"foreign", "junk", "default", "caller"}]
    BY <2>1 DEF Fill, CopyPrefix
  <2>3. calls' \in 0 .. MaxRequests
    BY <1>5, <2>1, TransportConstants DEF Send, StructFits
  <2>4. request' \in [scheme : Schemes \cup {"none"}, named : BOOLEAN, absolute : BOOLEAN, idle : {0, 1, 2}]
    <3>1. CASE request' = NoRequest
      BY <3>1 DEF NoRequest
    <3>2. CASE request' # NoRequest
      <4>1. (request = Template(wish))' /\ Scheme(wish'.target) \in Schemes /\ wish' \in RequestValues /\ client' \in Clients
        BY <1>5, <3>2, SendCases
      <4>2. ReadIdle(wish)' \in {0, 1, 2}
        BY <4>1 DEF ReadIdle, RequestValues, Clients, Inherit
      <4> QED
        BY <4>1, <4>2 DEF Template
    <3> QED
      BY <3>1, <3>2
  <2> QED
    BY <1>5, <2>2, <2>3, <2>4, SendCases
<1>6. ASSUME Attempt PROVE CallTypes'
  BY <1>6, AttemptControl DEF Still, abiVars
<1>7. ASSUME UNCHANGED vars PROVE CallTypes'
  BY <1>7 DEF vars, abiVars
<1> QED
  BY <1>2, <1>3, <1>4, <1>5, <1>6, <1>7 DEF Next, Attempt

LEMMA AttemptTypesStep ==
  TypeOK /\ StructFits /\ ClockFits /\ RequestFits /\ [Next]_vars => AttemptTypes'
<1> SUFFICES ASSUME TypeOK, StructFits, ClockFits, RequestFits, [Next]_vars PROVE AttemptTypes'
  OBVIOUS
<1>1. CallTypes /\ AttemptTypes
  BY TypeParts
<1>2. \A c \in Clients : c.timeout \in Nat
  <2>1. \A c \in Clients : c.timeout \in AskedTimeouts \cup {0, DefaultTimeout}
    BY DEF Clients
  <2>2. AskedTimeouts \cup {0, DefaultTimeout} \subseteq Nat
    BY TransportConstants
  <2> QED
    BY <2>1, <2>2, Zenon
<1>3. NoConn \in Conn /\ 0 \in 0 .. HeadLimit
  BY TransportConstants DEF NoConn, Conn
<1>4. NotSent \in [scheme : Schemes \cup {"none"}, conn : Conn, form : {"none", "absolute", "origin", "full"},
                   idle : {0, 1, 2}]
  BY <1>3 DEF NotSent
<1>5. client'.timeout \in Nat /\ client.timeout \in Nat
  BY <1>1, <1>2, CallTypesStep DEF CallTypes
<1>6. ASSUME UNCHANGED <<conns, dialling, elapsed, head, sent, error, clock>>, UNCHANGED client \/ clock = 0,
             pc' \in {"options", "new", "ready", "send", "acquire", "dial", "exchange", "tls", "http", "write", "over"}
      PROVE AttemptTypes'
  BY <1>1, <1>5, <1>6 DEF AttemptTypes
<1>7. ASSUME NEW kind \in Errors, Settle(kind), UNCHANGED sent, conns' \in [Schemes -> Conn] PROVE AttemptTypes'
  BY <1>1, <1>3, <1>5, <1>7 DEF AttemptTypes, Settle, Goto
<1>8. ASSUME OptionsInit \/ RequestInit PROVE AttemptTypes'
  <2>1. UNCHANGED <<dialVars, sent, error, client>> /\ pc' \in {"over", "new", "send"}
    BY <1>8, Zenon DEF OptionsInit, RequestInit, InitStruct, Goto
  <2> QED
    BY <1>6, <2>1 DEF dialVars
<1>9. ASSUME ClientNew PROVE AttemptTypes'
  <2>1. pc = "new"
    BY <1>9 DEF ClientNew
  <2> QED
    BY <1>6, <1>9, <2>1, NewCases DEF dialVars, ClockFits
<1>10. ASSUME Send PROVE AttemptTypes'
  <2>1. sent' = NotSent /\ error' = "NONE"
    BY <1>10 DEF Send
  <2>2. UNCHANGED <<client, dialVars>> /\ pc' \in {"ready", "acquire"}
    BY <1>10, SendCases
  <2> QED
    BY <1>1, <1>4, <2>1, <2>2 DEF AttemptTypes, dialVars, Errors
<1>11. ASSUME Attempt PROVE AttemptTypes'
  <2>1. UNCHANGED client /\ request.scheme \in Schemes
    BY <1>11, AttemptControl DEF Still, RequestFits
  <2>2. conns \in [Schemes -> Conn] /\ dialling \in Conn
    BY <1>1 DEF AttemptTypes
  <2>3. CASE Reuse
    BY <1>6, <2>1, <2>3 DEF Reuse, Goto, dialVars
  <2>4. CASE Connect
    <3>1. conns' \in [Schemes -> Conn] /\ sent' = sent
      BY <1>3, <2>1, <2>2, <2>4 DEF Connect
    <3>2. CASE Settle("TLS_HOSTNAME")
      BY <1>7, <3>1, <3>2 DEF Errors
    <3>3. CASE ~Settle("TLS_HOSTNAME")
      <4>1. /\ dialling' = [NoConn EXCEPT !.to = Address(request.scheme)] /\ pc' = "dial"
            /\ UNCHANGED <<clock, elapsed, head, error>>
        BY <2>4, <3>3 DEF Connect, Goto
      <4>2. dialling' \in Conn
        BY <4>1, Zenon DEF NoConn, Conn, Address
      <4> QED
        BY <1>1, <2>1, <3>1, <4>1, <4>2 DEF AttemptTypes
    <3> QED
      BY <3>2, <3>3
  <2>5. CASE Dialled
    <3>1. CASE Settle("CONNECT")
      BY <1>7, <2>2, <2>5, <3>1 DEF Dialled, Errors
    <3>2. CASE ~Settle("CONNECT")
      <4>1. /\ pc' = AfterDial(request.scheme) /\ clock' = 0
            /\ UNCHANGED <<conns, sent, dialling, elapsed, head, error>>
        BY <2>5, <3>2 DEF Dialled, Goto
      <4> QED
        BY <1>1, <1>5, <4>1 DEF AttemptTypes, AfterDial
    <3> QED
      BY <3>1, <3>2
  <2>6. CASE Exchange
    <3>1. UNCHANGED <<conns, sent>> /\ pc = "exchange"
      BY <2>6, Zenon DEF Exchange
    <3>2. CASE Settle("PROTOCOL") \/ Settle("CONNECT")
      BY <1>7, <2>2, <3>1, <3>2 DEF Errors
    <3>3. CASE head < HeadLimit /\ head' = head + 1 /\ UNCHANGED <<pc, dialling, clock, elapsed, error>>
      BY <1>1, <2>1, <3>1, <3>3, TransportConstants DEF AttemptTypes
    <3>4. CASE /\ dialling' = [dialling EXCEPT !.tunnel = TRUE] /\ pc' = "tls"
               /\ clock' = 0 /\ head' = 0 /\ UNCHANGED <<elapsed, error>>
      <4>1. dialling' \in Conn
        BY <2>2, <3>4, Zenon DEF Conn
      <4> QED
        BY <1>1, <1>3, <1>5, <3>1, <3>4, <4>1 DEF AttemptTypes
    <3> QED
      BY <2>6, <3>2, <3>3, <3>4, Zenon DEF Exchange, ReadMore, Goto
  <2>7. CASE Tick
    <3>1. /\ clock < client.timeout /\ clock' = clock + 1 /\ elapsed' = elapsed + 1
          /\ UNCHANGED <<pc, conns, dialling, head, sent, error>>
      BY <2>7 DEF Tick
    <3> QED
      BY <1>1, <1>5, <2>1, <3>1 DEF AttemptTypes
  <2>8. CASE TimesOut
    BY <1>7, <2>2, <2>8 DEF TimesOut, Errors
  <2>9. CASE TlsHandshake
    <3>1. UNCHANGED <<conns, sent>>
      BY <2>9, Zenon DEF TlsHandshake
    <3>2. CASE \E fault \in {"issuer", "name", "validity", "no protocol", "tls", "io"} : Settle(Classify(fault))
      <4>1. \A fault \in {"issuer", "name", "validity", "no protocol", "tls", "io"} : Classify(fault) \in Errors
        BY Zenon DEF Classify, Errors
      <4> QED
        BY <1>7, <2>2, <3>1, <3>2, <4>1, Zenon
    <3>3. CASE Settle("ALPN_NO_H2")
      BY <1>7, <2>2, <3>1, <3>3 DEF Errors
    <3>4. ASSUME NEW issuer \in client.roots, NEW alpn, pc' = "http",
                 dialling' = [dialling EXCEPT !.issuer = issuer, !.proto = IF alpn = "h2" THEN "h2" ELSE "h1"],
                 UNCHANGED <<clock, elapsed, head, error>>
          PROVE AttemptTypes'
      <4>1. issuer \in {"system", "custom"}
        BY <1>1 DEF CallTypes, Clients
      <4>2. dialling' \in Conn
        BY <2>2, <3>4, <4>1, Zenon DEF Conn
      <4> QED
        BY <1>1, <2>1, <3>1, <3>4, <4>2 DEF AttemptTypes
    <3> QED
      BY <2>9, <3>2, <3>3, <3>4, Zenon DEF TlsHandshake, Goto
  <2>10. CASE HttpHandshake
    <3>1. sent' = sent
      BY <2>10 DEF HttpHandshake
    <3>2. CASE Settle(IF request.scheme = "http" THEN "CONNECT" ELSE "PROTOCOL") /\ conns' = conns
      BY <1>7, <2>2, <3>1, <3>2 DEF Errors
    <3>3. CASE /\ conns' = [conns EXCEPT ![request.scheme] =
                              IF request.scheme = "http" THEN [dialling EXCEPT !.proto = "h1"] ELSE dialling]
               /\ dialling' = NoConn /\ pc' = "write"
               /\ clock' = 0 /\ elapsed' = 0 /\ head' = 0 /\ UNCHANGED error
      <4>1. [dialling EXCEPT !.proto = "h1"] \in Conn
        BY <2>2 DEF Conn
      <4>2. conns' \in [Schemes -> Conn]
        BY <2>2, <3>3, <4>1, Zenon
      <4> QED
        BY <1>1, <1>3, <1>5, <3>1, <3>3, <4>2 DEF AttemptTypes
    <3> QED
      BY <2>10, <3>2, <3>3, Zenon DEF HttpHandshake, Goto
  <2>11. CASE Write
    <3>1. /\ sent' = [scheme |-> request.scheme, conn |-> conns[request.scheme],
                      form |-> Form(conns[request.scheme]), idle |-> request.idle]
          /\ pc' = "ready" /\ UNCHANGED <<conns, dialling, clock, elapsed, head, error>>
      BY <2>11 DEF Write, Goto, dialVars
    <3>2. Form(conns[request.scheme]) \in {"none", "absolute", "origin", "full"} /\ request.idle \in {0, 1, 2}
      BY <1>1 DEF Form, CallTypes
    <3>3. sent' \in [scheme : Schemes \cup {"none"}, conn : Conn, form : {"none", "absolute", "origin", "full"},
                     idle : {0, 1, 2}]
      BY <2>1, <2>2, <3>1, <3>2
    <3> QED
      BY <1>1, <2>1, <3>1, <3>3 DEF AttemptTypes
  <2> QED
    BY <1>11, <2>3, <2>4, <2>5, <2>6, <2>7, <2>8, <2>9, <2>10, <2>11 DEF Attempt
<1>12. ASSUME UNCHANGED vars PROVE AttemptTypes'
  BY <1>1, <1>6, <1>12 DEF vars, dialVars, AttemptTypes
<1> QED
  BY <1>8, <1>9, <1>10, <1>11, <1>12 DEF Next, Attempt

LEMMA Initially == Init => IInv
<1> SUFFICES ASSUME Init PROVE IInv
  OBVIOUS
<1>1. CallTypes
  <2>1. DefaultOptions \in OptionValues
    BY DEF DefaultOptions, OptionValues
  <2>2. DefaultRequest \in RequestValues
    BY DEF DefaultRequest, RequestValues
  <2>3. NoClient \in Clients
    BY DEF NoClient, Clients
  <2>4. NoRequest \in [scheme : Schemes \cup {"none"}, named : BOOLEAN, absolute : BOOLEAN, idle : {0, 1, 2}]
    BY DEF NoRequest
  <2> QED
    BY <2>1, <2>2, <2>3, <2>4, TransportConstants DEF Init, CallTypes, Statuses
<1>2. AttemptTypes
  <2>1. NoConn \in Conn
    BY DEF NoConn, Conn
  <2>2. NotSent \in [scheme : Schemes \cup {"none"}, conn : Conn, form : {"none", "absolute", "origin", "full"},
                     idle : {0, 1, 2}]
    BY <2>1 DEF NotSent
  <2>3. client.timeout = 0
    BY DEF Init, NoClient
  <2> QED
    BY <2>1, <2>2, <2>3, TransportConstants DEF Init, AttemptTypes, Errors
<1>3. StructFits
  BY DEF Init, StructFits, OwnPrefixOnly
<1>4. ClientFits /\ RequestFits /\ PoolFits /\ DialFits /\ SentFits /\ ClockFits
  BY DEF Init, ClientFits, RequestFits, Running, PoolFits, DialFits, SentFits, ClockFits
<1> QED
  BY <1>1, <1>2, <1>3, <1>4, TypeParts DEF IInv

(* The inductive invariant, for any sizes, timeouts, limits and requests. *)
THEOREM Inductive == Spec => []IInv
<1>1. IInv /\ [Next]_vars => IInv'
  <2> SUFFICES ASSUME IInv, [Next]_vars PROVE IInv'
    OBVIOUS
  <2>1. TypeOK'
    BY CallTypesStep, AttemptTypesStep, TypeParts DEF IInv, TypeOK, CallTypes, AttemptTypes, Clients
  <2> QED
    BY <2>1, StructStep, ClientStep, RequestStep, PoolStep, DialStep, SentStep, ClockStep DEF IInv
<1> QED
  BY <1>1, Initially, PTL DEF Spec

-----------------------------------------------------------------------------
(* What a written request says of the client that wrote it. *)
LEMMA Written ==
  ASSUME IInv, sent # NotSent
  PROVE /\ client.h2 = ("h2" \in asked.flags) /\ client.proxied = (asked.proxy # "null")
        /\ client.idle = asked.idle
        /\ client.roots \subseteq Roots(asked) /\ Roots(asked) \subseteq {"system", "custom"}
        /\ sent.scheme \in Schemes /\ ConnFits(sent.scheme, sent.conn)
        /\ sent.scheme = "http" => ~client.h2
<1>1. client = MakeClient(asked)
  BY DEF IInv, ClientFits
<1>2. /\ client.h2 = ("h2" \in asked.flags) /\ client.proxied = (asked.proxy # "null")
      /\ client.idle = asked.idle /\ client.roots \subseteq Roots(asked)
  BY <1>1 DEF MakeClient
<1> QED
  BY <1>2 DEF IInv, SentFits, Roots

(* Every variable keeps its type; the dial's clock and the tunnel's reads    *)
(* stay within their limits.                                                 *)
THEOREM TypeCorrect == Spec => []TypeOK
<1>1. IInv => TypeOK
  BY DEF IInv
<1> QED
  BY <1>1, Inductive, PTL

(* init_prefix and copy_prefix touch the caller's own struct only, and the   *)
(* callee never reads a field nobody has set.                                *)
THEOREM StructsKept == Spec => []OwnPrefixOnly
<1>1. IInv => OwnPrefixOnly
  BY DEF IInv, StructFits
<1> QED
  BY <1>1, Inductive, PTL

(* HTTP2_REQUIRED is kept by send and by the TLS connector together. *)
THEOREM Http2Kept == Spec => []NoDowngrade
<1>1. IInv => NoDowngrade
  <2> SUFFICES ASSUME IInv, "h2" \in asked.flags, sent # NotSent
      PROVE sent.conn.proto = "h2" /\ sent.conn.issuer # "none"
    BY DEF NoDowngrade
  <2>1. client.h2 /\ sent.scheme = "https"
    BY Written, Zenon DEF Schemes
  <2> QED
    BY <2>1, Written DEF ConnFits
<1> QED
  BY <1>1, Inductive, PTL

(* A request reaches its peer by the route that was asked for. *)
THEOREM RouteKept == Spec => []Routed
<1>1. IInv => Routed
  <2> SUFFICES ASSUME IInv, sent # NotSent
      PROVE /\ sent.conn.to = IF asked.proxy = "null" THEN "origin" ELSE "proxy"
            /\ sent.conn.tunnel <=> asked.proxy # "null" /\ sent.scheme = "https"
            /\ sent.scheme = "https" <=> sent.conn.issuer # "none"
    BY DEF Routed
  <2>1. /\ sent.conn.to = Address(sent.scheme)
        /\ sent.conn.tunnel = (client.proxied /\ sent.scheme = "https")
        /\ client.proxied = (asked.proxy # "null")
    BY Written DEF ConnFits
  <2>2. sent.scheme = "https" <=> sent.conn.issuer # "none"
    BY Written DEF ConnFits, Schemes
  <2> QED
    BY <2>1, <2>2, Zenon DEF Address
<1> QED
  BY <1>1, Inductive, PTL

(* The form of the request-target fits its reader. *)
THEOREM FormKept == Spec => []FormFitsReader
<1>1. IInv => FormFitsReader
  BY DEF IInv, SentFits, FormFitsReader
<1> QED
  BY <1>1, Inductive, PTL

(* No connection is trusted on a root that was not asked for. *)
THEOREM TrustKept == Spec => []TrustAsAsked
<1>1. IInv => TrustAsAsked
  <2> SUFFICES ASSUME IInv PROVE TrustAsAsked
    OBVIOUS
  <2>1. ASSUME sent.conn.issuer \in {"system", "custom"} PROVE sent.conn.issuer \in Roots(asked)
    <3>1. sent # NotSent
      BY <2>1 DEF NotSent, NoConn
    <3>2. sent.scheme = "https"
      BY <2>1, <3>1, Written DEF ConnFits, Schemes
    <3> QED
      BY <3>1, <3>2, Written DEF ConnFits
  <2>2. ASSUME client.tls
        PROVE asked.ca # "bad" /\ client.roots = Roots(asked)
    <3>1. client = MakeClient(asked)
      BY <2>2 DEF IInv, ClientFits, NoClient
    <3>2. TlsConfig(asked) = "NONE" /\ client.roots = Roots(asked)
      BY <2>2, <3>1, Zenon DEF MakeClient
    <3> QED
      BY <3>2 DEF TlsConfig
  <2> QED
    BY <2>1, <2>2 DEF TrustAsAsked, Roots
<1> QED
  BY <1>1, Inductive, PTL

(* The read-idle timeout in force is the one that was asked for. *)
THEOREM IdleKept == Spec => []IdleAsAsked
<1>1. IInv => IdleAsAsked
  <2> SUFFICES ASSUME IInv, sent # NotSent
      PROVE sent.idle = IF wish.idle = Inherit THEN asked.idle ELSE wish.idle
    BY DEF IdleAsAsked
  <2>1. sent.idle = ReadIdle(wish)
    BY DEF IInv, SentFits
  <2> QED
    BY <2>1, Written DEF ReadIdle
<1> QED
  BY <1>1, Inductive, PTL

(* The dial and the CONNECT exchange take one connect timeout each at most,  *)
(* however the proxy spreads its answer.                                     *)
THEOREM DialsBounded == Spec => []PhasesBounded
<1>1. IInv => PhasesBounded
  <2> SUFFICES ASSUME IInv PROVE PhasesBounded
    OBVIOUS
  <2>1. /\ client.timeout \in Nat /\ elapsed \in Nat /\ clock \in Nat /\ clock <= client.timeout
    <3>1. client \in Clients /\ clock \in 0 .. client.timeout /\ elapsed \in Nat
      BY DEF IInv, TypeOK, Clients
    <3>2. AskedTimeouts \cup {0, DefaultTimeout} \subseteq Nat /\ client.timeout \in AskedTimeouts \cup {0, DefaultTimeout}
      BY <3>1, TransportConstants DEF Clients
    <3> QED
      BY <3>1, <3>2
  <2>2. CASE pc \in {"exchange", "tls", "http"}
    <3>1. dialling.to = Address(request.scheme) /\ (pc = "exchange" => client.proxied)
      BY <2>2 DEF IInv, DialFits
    <3> QED
      BY <2>1, <2>2, <3>1 DEF IInv, ClockFits, PhasesBounded, Address
  <2>3. CASE pc \notin {"exchange", "tls", "http"}
    BY <2>1, <2>3 DEF IInv, ClockFits, PhasesBounded
  <2> QED
    BY <2>2, <2>3
<1> QED
  BY <1>1, Inductive, PTL
=============================================================================
