-------------------------------- MODULE MCPci --------------------------------
(* Machines for Pci: two buses of three devices with two functions. Bus 0 has  *)
(* devices with one function or two and bridges to bus 1 and to itself; the    *)
(* revisions include the codes of the class and subclass of a bridge.          *)
EXTENDS Pci

Ones == [k \in 1..4 |-> 255]
Part(revision, subclass, class, header, secondary) ==
    [o \in Offsets |-> CASE o = 0  -> <<1, 1, 1, 1>>
                         [] o = 8  -> <<revision, 0, subclass, class>>
                         [] o = 12 -> <<0, 0, header, 0>>
                         [] o = 24 -> <<0, secondary, secondary, 0>>]
Absent == [o \in Offsets |-> Ones]
Endpoint(header) == Part(0, 6, 1, header, 0)
Bridge(revision, header, secondary) == Part(revision, 4, 6, header, secondary)

First == {Absent, Endpoint(0), Endpoint(128), Bridge(6, 1, 1), Bridge(4, 129, 1),
          Bridge(4, 129, 0)}
Second == {Absent, Endpoint(0), Bridge(6, 129, 0)}
Behind == {Absent, Endpoint(0)}

\* Devices 0 and 1 of bus 0, device 2 of it, and device 0 of bus 1.
Machine(d0, d1, d2, behind) ==
    [f \in {0, 1} \X (0..2) \X {0, 1} |->
        CASE f[1] = 0 /\ f[2] = 0       -> d0[f[3]]
          [] f[1] = 0 /\ f[2] = 1       -> d1[f[3]]
          [] f = <<0, 2, 0>>            -> d2
          [] f = <<1, 0, 0>>            -> behind
          [] OTHER                      -> Absent]

Device == {[k \in {0, 1} |-> IF k = 0 THEN a ELSE b] : a \in First, b \in Second}

MCMachines == {Machine(d0, d1, d2, behind) : d0 \in Device, d1 \in Device,
                                             d2 \in Behind, behind \in Behind}
==============================================================================
