------------------------------ MODULE SmsForward ------------------------------
(***************************************************************************)
(* Forwarding one message (sms_forward.c): by curl to a webhook, or by the *)
(* SMTP client of smtp.c, which writes a command and reads one line of     *)
(* reply, however many lines the server sends.                             *)
(*                                                                         *)
(* A reply line is its class, 2 to 5, and 0 when nothing was read.     The *)
(* server is any server that follows the protocol: it may reject any       *)
(* command, may hang up, and greets and answers with one or more lines.    *)
(***************************************************************************)
EXTENDS Integers, SequencesExt

CONSTANTS Modes,       \* "disabled", "webhook", "smtp": the configurations
          Lines,       \* how many lines a greeting or a reply may have
          Bodies,      \* "whole"; "leading": a line begins with a dot; "dotted":
                       \* a line is one dot; "cut": longer than the 2048 bytes of
                       \* smtp_writef
          HangsUp,     \* whether the server may close the connection
          HttpFaults   \* whether the webhook may answer with an error or too late

ASSUME ConstantsOK ==
  /\ Modes \subseteq {"disabled", "webhook", "smtp"} /\ Lines \subseteq Nat \ {0}
  /\ Bodies \subseteq {"whole", "leading", "dotted", "cut"} /\ {HangsUp, HttpFaults} \subseteq BOOLEAN

VARIABLES
  mode, auth, body,   \* the configuration and the text, fixed
  pos,                \* the command of the script being written or answered
  turn,               \* "start", "curl", "write", "read" or "done"
  result,             \* "pending", "sent", "failed" or "killed" by SIGPIPE
  toServer, toClient, \* the connection
  server,             \* "greet", "ready", "mail", "rcpt", "data", "gone"
  delivered,          \* what the server or the webhook took: "no", "part" or
                      \* altered, "whole"
  trouble,            \* history: the text, the server or the webhook is one the code
                      \* does not reckon with
  refused             \* history: the server has rejected a command before the mail

config == <<mode, auth, body>>
client == <<pos, turn, result>>
fate   == <<delivered, trouble, refused>>
vars   == <<config, client, toServer, toClient, server, fate>>

Script == <<"CONNECT", "EHLO">> \o (IF auth THEN <<"AUTH", "USER", "PASS">> ELSE <<>>)
          \o <<"MAIL", "RCPT", "DATA", "BODY", "QUIT">>
Bad   == {4, 5}
Codes == {0, 2, 3} \cup Bad

TypeOK ==
  /\ mode \in Modes /\ auth \in BOOLEAN /\ body \in Bodies
  /\ pos \in 1..10 /\ turn \in {"start", "curl", "write", "read", "done"}
  /\ result \in {"pending", "sent", "failed", "killed"}
  /\ toServer \in Seq(ToSet(Script)) /\ toClient \in Seq(Codes \ {0})
  /\ server \in {"greet", "ready", "mail", "rcpt", "data", "gone"}
  /\ delivered \in {"no", "part", "whole"} /\ {trouble, refused} \subseteq BOOLEAN

Init ==
  /\ mode \in Modes /\ auth \in BOOLEAN /\ body \in Bodies
  /\ pos = 1 /\ turn = "start" /\ result = "pending"
  /\ toServer = <<>> /\ toClient = <<>> /\ server = "greet" /\ delivered = "no"
  /\ trouble = (body # "whole") /\ refused = FALSE

End(r) == result' = r /\ turn' = "done" /\ UNCHANGED pos

-----------------------------------------------------------------------------
(* sms_forward_send.                                                       *)

\* Disabled, or an address is missing, or connect_tcp finds no server.
Refuse ==
  /\ turn = "start"
  /\ End("failed")
  /\ UNCHANGED <<config, toServer, toClient, server, fate>>

\* The webhook takes the message, answers an HTTP error, cannot be reached, or
\* takes it and is not heard before run_capture's timeout.
Webhook ==
  /\ turn = "start" /\ mode = "webhook" /\ turn' = "curl"
  /\ \/ delivered' = "whole" /\ toClient' = <<2>> /\ UNCHANGED trouble
     \/ toClient' = <<>> /\ UNCHANGED fate
     \/ HttpFaults /\ toClient' = <<5>> /\ trouble' = TRUE /\ UNCHANGED delivered
     \/ HttpFaults /\ delivered' = "whole" /\ toClient' = <<>> /\ trouble' = TRUE
  /\ UNCHANGED <<config, pos, result, toServer, server, refused>>

\* curl -sS without -f: any answer gives exit code 0.
CurlExits ==
  /\ turn = "curl"
  /\ End(IF toClient = <<>> THEN "failed" ELSE "sent")
  /\ UNCHANGED <<config, toServer, toClient, server, fate>>

Connect ==
  /\ turn = "start" /\ mode = "smtp"
  /\ turn' = "read"
  /\ UNCHANGED <<config, pos, result, toServer, toClient, server, fate>>

-----------------------------------------------------------------------------
(* smtp_send_plain.                                                        *)

\* smtp_writef.  Once the server is gone the text is lost or raises SIGPIPE.
Write ==
  /\ turn = "write"
  /\ \/ /\ turn' = "read" /\ UNCHANGED <<pos, result>>
        /\ toServer' = IF server = "gone" THEN toServer ELSE Append(toServer, Script[pos])
     \/ server = "gone" /\ End("killed") /\ UNCHANGED toServer
  /\ UNCHANGED <<config, toClient, server, fate>>

\* Which reply lets the client go on.  A line that is no reply, or no line at
\* all, reads as 0, which is below 400.
GoesOn_Blindly(cmd, code) == code < 4 \/ cmd = "BODY"   \* fault: last reply ignored
GoesOn_IfHeard(cmd, code) == code \in {2, 3}            \* fault: end of file is a failure
GoesOn(cmd, code) ==
  CASE cmd \in {"CONNECT", "PASS"} -> code \in {2, 3}
    [] cmd \in {"EHLO", "AUTH", "USER", "QUIT"} -> TRUE
    [] OTHER -> code < 4
NextPos_Skip == pos + 2                                \* fault: a command is skipped
NextPos == pos + 1

\* smtp_read_line: one line, or 0 at end of file.
ReadLine(code) ==
  /\ turn = "read"
  /\ \/ toClient # <<>> /\ code = Head(toClient) /\ toClient' = Tail(toClient)
     \/ toClient = <<>> /\ server = "gone" /\ code = 0 /\ UNCHANGED toClient
  /\ \/ ~ GoesOn(Script[pos], code) /\ End("failed")
     \/ GoesOn(Script[pos], code) /\ pos = Len(Script) /\ End("sent")
     \/ /\ GoesOn(Script[pos], code) /\ pos < Len(Script)
        /\ pos' = NextPos /\ turn' = "write" /\ UNCHANGED result
  /\ UNCHANGED <<config, toServer, server, fate>>

-----------------------------------------------------------------------------
(* The server.                                                             *)

Repeat(n, code) == [i \in 1..n |-> code]

\* A reply has the same code on each of its lines; rest is what else it sends.
Reply(s, code, rest) ==
  \E n \in Lines :
    /\ server' = s /\ toClient' = toClient \o (Repeat(n, code) \o rest)
    /\ trouble' = (trouble \/ n > 1)
    /\ UNCHANGED <<config, client>>

Greet ==
  /\ turn = "read" /\ server = "greet"
  /\ Reply("ready", 2, <<>>) \/ \E c \in Bad : Reply("gone", c, <<>>)
  /\ UNCHANGED <<toServer, delivered, refused>>

\* A command in its place is accepted or rejected, out of place rejected.
Login == {"EHLO", "AUTH", "USER", "PASS"}
InPlace(cmd) == \/ cmd \in Login /\ server = "ready"
                \/ cmd = "MAIL" /\ server = "ready"
                \/ cmd = "RCPT" /\ server = "mail"
                \/ cmd = "DATA" /\ server = "rcpt"
After(cmd) == CASE cmd = "MAIL" -> "mail" [] cmd = "RCPT" -> "rcpt" [] cmd = "DATA" -> "data"
                [] OTHER -> server
Accepts(cmd) == Reply(After(cmd), IF cmd \in {"DATA", "AUTH", "USER"} THEN 3 ELSE 2, <<>>)
ServeCommand(cmd) ==
  /\ server \in {"ready", "mail", "rcpt"} /\ cmd \notin {"BODY", "QUIT"}
  /\ \/ InPlace(cmd) /\ Accepts(cmd) /\ UNCHANGED refused
     \/ /\ \E c \in Bad : Reply(server, c, <<>>)
        /\ refused' = (refused \/ cmd \in Login)
  /\ UNCHANGED delivered

\* In data mode the message ends at a line with one dot; what follows is taken
\* for commands.  Without such a line the server waits.  The first dot of any
\* other line is dropped.  Out of place each line is a command it does not know.
ServeBody(cmd) ==
  /\ cmd = "BODY"
  /\ \/ /\ server = "data" /\ body # "cut"
        /\ \E c \in {2} \cup Bad :
             /\ Reply("ready", c, IF body = "dotted" THEN <<5>> ELSE <<>>)
             /\ delivered' = IF c # 2 THEN "no" ELSE IF body = "whole" THEN "whole" ELSE "part"
     \/ server = "data" /\ body = "cut" /\ UNCHANGED <<config, client, toClient, server, delivered, trouble>>
     \/ server \in {"ready", "mail", "rcpt"} /\ Reply(server, 5, <<5>>) /\ UNCHANGED delivered
  /\ UNCHANGED refused

ServeQuit(cmd) ==
  /\ cmd = "QUIT" /\ server # "data"
  /\ Reply("gone", 2, <<>>) /\ UNCHANGED <<delivered, refused>>

Serve ==
  /\ server # "gone" /\ toServer # <<>> /\ toServer' = Tail(toServer)
  /\ LET cmd == Head(toServer) IN ServeCommand(cmd) \/ ServeBody(cmd) \/ ServeQuit(cmd)

HangUp ==
  /\ HangsUp /\ mode = "smtp" /\ turn # "start" /\ server # "gone"
  /\ server' = "gone" /\ toServer' = <<>> /\ trouble' = TRUE
  /\ UNCHANGED <<config, client, toClient, delivered, refused>>

Client == Refuse \/ Webhook \/ CurlExits \/ Connect \/ Write \/ \E code \in Codes : ReadLine(code)
Next   == Client \/ Greet \/ Serve \/ HangUp

Spec     == Init /\ [][Next]_vars
\* The HTTP thread runs and the server answers.
FairSpec == Spec /\ WF_vars(Client) /\ WF_vars(Greet) /\ WF_vars(Serve)

-----------------------------------------------------------------------------
\* As long as every reply has one line, the greeting and EHLO's included, nobody
\* hangs up, the webhook has no fault and the text is ordinary, the daemon reports
\* exactly what became of the message, and does report.  A second line to anything
\* moves every reply after it to the next command: a refused text may be reported
\* as sent (smtp.c 32-46, 97-124).
Promise == INSTANCE Forwarding WITH taken <- delivered = "whole",
                                    report <- result
ReportsWhatHappened == Promise!Spec

\* Whatever the server sends, on as many lines as it likes, a mail reported as
\* failed was not and will not be taken: the user who tries again sends no
\* duplicate.  A server that rejects EHLO or the login, takes the mail all the same
\* and uses several lines before is the exception: the rejection may be read as the
\* text's own (smtp.c 97-127).
RetryIsSafe == mode = "smtp" /\ result = "failed" /\ ~ refused => delivered = "no"
=============================================================================
