\* The three threads that send, one packet each.
SPECIFICATION Spec
CONSTANTS
    Senders = {main, queue, encoder}
    MaxPackets = 1
INVARIANTS NumbersAreUnique
