\* A workshop's package, three officers, servers of both mail modes.
SPECIFICATION Spec
CONSTANTS
    o1 = o1
    o2 = o2
    o3 = o3
    Departments = {"secretariat", "external_relations", "academics"}
    Required = {"secretariat", "external_relations"}
    Officers <- Three
    DeptOf <- DeptOfThree
    Modes = {"copy_export", "gmail"}
INVARIANTS
    TypeOK
    SingleSender
    SubmittedIsDelivered
    UnanimousBeforeMail
PROPERTIES
    DeliveredStaysDelivered
