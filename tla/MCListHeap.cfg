SPECIFICATION ListsSpec
CONSTANTS
    n1 = n1
    n2 = n2
    n3 = n3
    n4 = n4
    head1 = head1
    head2 = head2
    Nodes <- MCNodes
    Heads <- MCHeads
PROPERTIES
    ImplementsLists
