----------------------------- MODULE MCInbound -----------------------------
(* Ana writes over WhatsApp, Leo over a social channel.                    *)
EXTENDS Inbound

\* All the messages come from one of them: turns of different clients share
\* only the lock of the service.
OneSender == {[m \in Messages |-> c] : c \in Clients}
=============================================================================
