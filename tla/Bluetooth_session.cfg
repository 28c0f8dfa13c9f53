\* Two commands sent at any moment, connections lost and made again, and the
\* end of Bluetooth against both tasks that use the port.
CONSTANTS
    Positions = {"p1"}
    Commands <- MCCommands
    MaxSent = 2
    QueueSize = 2
    BatchSize = 2
SPECIFICATION FairSpec
INVARIANTS
    LatePassesStayOut
    CommandsAccounted
    AnswersMatch
    KnownPointAccepted
    BluetoothLostLate
PROPERTIES
    CommandsHandled
