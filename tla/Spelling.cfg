SPECIFICATION Spec
CONSTANTS
    None = None
    Subjects = {"zone", "recursor_zone", "address_record", "target_record", "text_record", "metadata", "view_zone", "network", "autoprimary", "tsigkey", "acl"}
    Blocks <- MCBlocks
    Plain <- MCPlain
    Values = {"example", "other", "one", "two", "host", "net", "net2", "native", "slave", "view", "view2", "plain"}
    Addresses = {"one", "two"}
    Networks = {"net", "net2"}
    SmallLimit = 2
INVARIANTS
    TypeOK
PROPERTIES
    ImplementsManaged
    IdentityStable
