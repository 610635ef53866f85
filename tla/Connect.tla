------------------------------ MODULE Connect -------------------------------
(***************************************************************************)
(* Addresses and TLS options of channels (bridge/cockpitconnect.c).  The   *)
(* options of a channel are parsed into a CockpitConnectable, which is     *)
(* counted: the caller while it connects, the stream that it makes and the *)
(* handler of the TLS handshake each have a reference.  In the handshake the flags    *)
(* say which errors of the server's certificate end the connection.        *)
(*                                                                         *)
(* An option with a certificate is "none", "file", "data", "both",         *)
(* "empty" (neither) or "wrong" (of the wrong type).                       *)
(***************************************************************************)
EXTENDS Naturals, FiniteSets

CONSTANTS
    Addresses,   \* the addresses that are tried, see Address
    Sources,     \* the ways to give a certificate
    LocalSet     \* may cockpit_bridge_local_address be set, to a value that may be wrong

VARIABLE c  \* one connection, a record with the fields
    \* stage     "options", "failed", "connecting", "handshake", "connected", "refused", "address"
    \* opts      the options of the channel
    \* conn      the connectable: local, tls, flags, cert, database, and its references
    \* stream, handler   whether the stream and the handler have a reference
    \* temp      a temporary file is left
    \* errors    the errors of the server's certificate
    \* checked   the flags of the handshake

vars == c

\* The flags of GTlsCertificateFlags, and G_TLS_CERTIFICATE_VALIDATE_ALL.
Errors == {"unknown-ca", "bad-identity", "not-activated", "expired", "revoked", "insecure", "generic"}

\* The options of a channel.  "tls" is absent, an object, or something else.
Options ==
    [address : Addresses, local : IF LocalSet THEN {"unset", "good", "bad"} ELSE {"unset"},
     tls : {"none", "object", "wrong"}, certificate : Sources, key : Sources, authority : Sources,
     validate : {"none", "true", "false", "wrong"}]

NoConn == [local |-> FALSE, tls |-> FALSE, flags |-> {}, cert |-> FALSE, database |-> FALSE, refs |-> 0]

Init ==
    \E o \in Options :
        /\ o.tls # "object" => o.certificate = "none" /\ o.key = "none" /\ o.authority = "none"
                               /\ o.validate = "none"
        /\ c = [stage |-> "options", opts |-> o, conn |-> NoConn, stream |-> FALSE,
                handler |-> FALSE, temp |-> FALSE, errors |-> {}, checked |-> {}]

(***************************************************************************)
(* Parsing.                                                                *)
(***************************************************************************)
\* parse_address: the option "port", in range or not, with or without "address"; "unix"; both;
\* neither; a value of the wrong type.
AddressGood(o) ==
    \/ o.address \in {"unix", "port+address"}
    \/ o.address = "port" /\ o.local # "bad"

\* "Specify address => non-local", and so is a socket in the file system.
Local(o) == o.address = "port"

\* parse_option_file_or_data
SourceGood(source) == source \in {"none", "file", "data"}

\* parse_cert_option_as_pem and load_pem_contents, with files that can be read or not.
PemGood(source, readable) == SourceGood(source) /\ (source = "file" => readable)

\* parse_cert_option_as_database, with a temporary file that can be written or not, and contents
\* that make a database or not.
DatabaseGood(source, readable, valid) ==
    SourceGood(source) /\ (source = "data" => readable) /\ (source # "none" => valid)

\* "Leave around when problem, for debugging": a file that was made is not removed when it
\* cannot be written or is no database.
TempLeft(source, made, readable, valid) == source = "data" /\ made /\ ~(readable /\ valid)

\* "No validation for local servers by default"
Validate(o) == CASE o.validate = "none" -> ~Local(o) [] OTHER -> o.validate = "true"

\* The end of parse_stream_options.
Flags(o) ==
    CASE Validate(o) -> Errors
      [] ~Validate(o) /\ o.authority # "none" -> Errors \ {"insecure", "bad-identity"}
      [] OTHER -> {"generic"}

\* What parse_stream_options reaches, in its order: a key is looked at only with a certificate.
CertGood(o, readable, valid) ==
    PemGood(o.certificate, readable) /\ (o.certificate # "none" => PemGood(o.key, readable) /\ valid)

Parsed(o) ==
    [local |-> Local(o), tls |-> o.tls = "object", flags |-> Flags(o), cert |-> o.certificate # "none",
     database |-> o.authority # "none", refs |-> 1]

(***************************************************************************)
(* References.                                                             *)
(***************************************************************************)
Ref(s) == [s EXCEPT !.conn.refs = @ + 1]

\* cockpit_connectable_unref: the last one frees the certificate and the database.
Unref(s) == IF s.conn.refs = 1 THEN [s EXCEPT !.conn = NoConn] ELSE [s EXCEPT !.conn.refs = @ - 1]

\* cockpit_connect_stream_full: for TLS the handler of the events has a reference.
StreamFull(s) ==
    IF s.conn.tls THEN [Ref(s) EXCEPT !.stage = "connecting", !.handler = TRUE]
    ELSE [s EXCEPT !.stage = "connecting"]

(***************************************************************************)
(* Actions.                                                                *)
(***************************************************************************)
\* parse_stream_options up to the temporary file.
BeforeAuthority(o, readable, valid) == AddressGood(o) /\ o.tls = "object" /\ CertGood(o, readable, valid)

\* cockpit_connect_parse_stream
OptionsParse(o, readable, valid) ==
    /\ AddressGood(o) /\ o.tls # "wrong" /\ o.validate # "wrong"
    /\ CertGood(o, readable, valid) /\ DatabaseGood(o.authority, readable, valid)

\* A channel connects.  A stream (cockpit_stream_connect) keeps a reference while it connects, a
\* WebSocket stream does not; that of the caller goes at the end.
Prepare(keeps) ==
    /\ c.stage = "options" /\ OptionsParse(c.opts, TRUE, TRUE)
    /\ LET s == [c EXCEPT !.conn = Parsed(c.opts), !.temp = TempLeft(c.opts.authority, TRUE, TRUE, TRUE)]
       IN  c' = Unref(StreamFull(IF keeps THEN [Ref(s) EXCEPT !.stream = TRUE] ELSE s))

\* The same when something is wrong: the channel fails, and the connectable is let go.
PrepareFails(made, readable, valid) ==
    /\ c.stage = "options" /\ ~OptionsParse(c.opts, readable, valid) /\ (readable => made)
    /\ c' = [c EXCEPT !.stage = "failed",
                      !.temp = BeforeAuthority(c.opts, readable, valid)
                               /\ TempLeft(c.opts.authority, made, readable, valid)]

\* cockpit_connect_parse_address, for channels without TLS: the address is looked up at once.
ParseAddress(found) ==
    /\ c.stage = "options" /\ c.opts.tls = "none"
    /\ c' = [c EXCEPT !.stage = IF AddressGood(c.opts) /\ found THEN "address" ELSE "failed"]

\* The stream has its connection, or is closed before.
StreamClosed ==
    /\ c.stream
    /\ c' = [Unref(c) EXCEPT !.stream = FALSE]

\* socket_client_event: the handshake begins, with what the connectable says.
Handshaking(errors) ==
    /\ c.stage = "connecting" /\ c.handler
    /\ c' = [c EXCEPT !.stage = "handshake", !.errors = errors, !.checked = c.conn.flags]

\* GnuTLS ends a handshake with an error that is checked.  A certificate of an unknown authority
\* is no error when the authority was given as one to expect, which is part of the choice of
\* the errors.
HandshakeDone ==
    /\ c.stage = "handshake"
    /\ c' = [Unref(c) EXCEPT !.handler = FALSE,
                             !.stage = IF c.errors \cap c.checked = {} THEN "connected" ELSE "refused"]

\* socket_client_connect_done, without TLS or without a connection.
ConnectDone(stage) ==
    /\ c.stage = "connecting"
    /\ stage = "connected" => ~c.handler
    /\ c' = IF c.handler THEN [Unref(c) EXCEPT !.handler = FALSE, !.stage = stage]
            ELSE [c EXCEPT !.stage = stage]

\* The certificates that are tried: without errors, or with one.
Certificates == {{}} \cup {{e} : e \in Errors}

Next ==
    \/ StreamClosed \/ HandshakeDone
    \/ \E keeps \in BOOLEAN : Prepare(keeps)
    \/ \E made, readable, valid \in BOOLEAN : PrepareFails(made, readable, valid)
    \/ \E found \in BOOLEAN : ParseAddress(found)
    \/ \E errors \in Certificates : Handshaking(errors)
    \/ \E stage \in {"connected", "refused"} : ConnectDone(stage)

Spec == Init /\ [][Next]_vars

(***************************************************************************)
(* Properties.                                                             *)
(***************************************************************************)
Count(b) == IF b THEN 1 ELSE 0

\* The references of the connectable are those of its holders, so that the last one frees it and
\* none uses it afterwards.
RefsHeld == c.conn.refs = Count(c.stream) + Count(c.handler)

\* A TLS connection to an address that was given is made only to a server whose certificate has
\* no error at all, unless the channel asked not to validate it.
RemoteValidated ==
    c.stage = "connected" /\ c.opts.tls = "object" /\ c.opts.address = "port+address" /\ c.opts.validate # "false" =>
        c.errors = {}

\* With authorities given, a connection is made only to a server that one of them signed,
\* whatever the address and also without validation, and with TLS in every case it was asked for.
AuthorityChecked ==
    c.stage = "connected" /\ c.opts.authority # "none" => {"unknown-ca", "expired", "revoked"} \cap c.errors = {}

\* Options that name two sources for a certificate, none, or one that cannot be used never lead
\* to a connection.
OptionsGood ==
    c.stage \in {"connecting", "handshake", "connected"} =>
        /\ c.opts.authority \in {"none", "file", "data"} /\ c.opts.certificate \in {"none", "file", "data"}
        /\ c.opts.certificate # "none" => c.opts.key \in {"none", "file", "data"}
        /\ c.opts.address \in {"unix", "port", "port+address"} /\ (c.opts.address = "port" => c.opts.local # "bad")

\* A temporary file with an authority is left only for an authority that is not valid.
TempCleaned == c.temp => c.stage = "failed" /\ c.opts.authority = "data" /\ c.opts.tls = "object"

=============================================================================
