------------------------------ MODULE Protocol ------------------------------
(***************************************************************************)
(* The packets of common/include/protocol.h and the two functions of       *)
(* common/src/protocol.c that build and check them.                        *)
(*                                                                         *)
(* A payload is a sequence of numbers: <<token>> in ACK and CONN_ACCEPTED, *)
(* <<old token, new token>> in AUTH, <<producer, sequence number>> in      *)
(* DATA, <<>> in the others.  MD5 is taken to be injective, so a digest is *)
(* the tuple of the fields it is computed over.                            *)
(***************************************************************************)
EXTENDS Integers, Sequences

MType == {"ACK", "FIN", "DATA", "CLI_ACCEPTED", "CONN_ACCEPTED", "AUTH",
          "FT_SETUP"}

\* Every byte of the packet but the hash goes into the digest.
MD5(type, time, payload) == <<type, time, payload>>

\* The hash field as bzero leaves it: the digest of no packet.
ZeroHash == <<>>

\* `fits' is payload_len <= PAYLOAD_SIZE.  A payload that does not fit makes
\* gen_packet return before it copies the payload and before it hashes.
gen_packet(type, payload, time, fits) ==
    IF fits
    THEN [mtype |-> type, timestamp |-> time, payload |-> payload,
          hash |-> MD5(type, time, payload)]
    ELSE [mtype |-> type, timestamp |-> time, payload |-> <<>>,
          hash |-> ZeroHash]

\* Nobody reads the timestamp of a control packet: it is abstracted to 0.
Control(type, payload) == gen_packet(type, payload, 0, TRUE)

check_packet_MD5(p) == p.hash = MD5(p.mtype, p.timestamp, p.payload)

\* A packet_t buffer that nothing has been read into.
Garbage == [mtype |-> "FIN", timestamp |-> 0, payload |-> <<>>,
            hash |-> ZeroHash]

\* The tokens that are read from the payload of a packet.
Tokens == [mtype \in MType |->
    CASE mtype = "AUTH"                      -> 2
      [] mtype \in {"ACK", "CONN_ACCEPTED"} -> 1
      [] OTHER                               -> 0]

\* What a packet_t variable can hold.
Packet ==
    {p \in [mtype : MType, timestamp : Nat, payload : Seq(Nat),
            hash : {ZeroHash} \cup (MType \X Nat \X Seq(Nat))] :
        Len(p.payload) >= Tokens[p.mtype]}
=============================================================================
