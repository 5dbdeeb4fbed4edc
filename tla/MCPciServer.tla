---------------------------- MODULE MCPciServer ----------------------------
EXTENDS PciServer

CONSTANTS net, disk

\* Kinds of devices by driver, and machines: a card of each kind and a card of
\* two functions with io windows of several sizes; more devices than the table
\* holds, on two busses; registers of half a word; more busses than the server
\* knows.
Io(sizes, short) == [i \in 1 .. Len(sizes) |-> [decodes |-> sizes[i], short |-> short]]
Card(k, sizes) == [kind |-> k, multi |-> FALSE, io |-> Io(sizes, FALSE)]
Multi(k, sizes) == [kind |-> k, multi |-> TRUE, io |-> Io(sizes, FALSE)]
ShortCard(k, sizes) == [kind |-> k, multi |-> FALSE, io |-> Io(sizes, TRUE)]

MCMachines ==
  { << << << Card(disk, <<1>>) >>, << Multi(net, <<4, 2>>), Card(net, <<4>>) >> >> >>,
    << << << Card(net, <<2>>) >>, << >>, << Card(disk, <<>>) >> >>,
       << << Card(net, <<1>>) >>, << Card(net, <<1>>) >> >> >>,
    << << << ShortCard(net, <<4, 4>>) >>, << Card(disk, <<4>>) >> >> >>,
    << << >>, << >>, << >> >> }

MCDependsOn == [x \in Contexts |-> IF x = Pci THEN None ELSE Pci]
MCWants == [d \in Contexts \ {Pci} |-> IF d = CHOOSE e \in Contexts \ {Pci} : TRUE THEN net ELSE Any]
=============================================================================
