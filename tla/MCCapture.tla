------------------------------- MODULE MCCapture -------------------------------
(* Instances of Capture for TLC.                                            *)
EXTENDS Capture, TLC

\* Passing instance: each kind of source with one variable, complete frames,
\* one schema.
OneCsvSource == [v \in Vars |-> "csv_" \o v]
OneSchema    == {[v \in NfVars |-> "port1"]}

\* What the refinement is about, where no body is lost.
ASSUME WholeInstance == ~LosesBodies => FramesAreWhole

Packet(sent, age, delay) == [sent |-> sent, age |-> age, delay |-> delay]

\* Offsets differ between clocks and between packets of the device, whose clock
\* may go back and whose samples may be older than the packet.
SomePackets == "nf"    :> {Packet(0, 0, 2), Packet(1, 1, 0)} @@
               "ft"    :> {Packet(1, 0, 1)} @@
               "mocap" :> {Packet(0, 0, 0)}

\* Bodies that move.
BodyPackets == "nf"    :> {Packet(0, 0, 0)} @@
               "ft"    :> {Packet(1, 0, 1)} @@
               "mocap" :> {Packet(0, 0, 0), Packet(1, 0, 0)}
=============================================================================
