SPECIFICATION ToolSpec
CONSTANTS
    spec = spec
    funs = funs
    calc = calc
    mixed = mixed
    bad = bad
    T = T
    tools = tools
    drafts = drafts
    outside = outside
    i1 = i1
    i2 = i2
    l1 = l1
    l2 = l2
    Names = {"b", "c", "d", "p__c"}
    Own = {"c", "p__c"}
    Prefixes = {"p", "q"}
    Joined <- MCJoined
    Types = {T}
    Modules = {spec, funs}
    Files = {calc, mixed, bad}
    PrefixOf <- MCPrefixOf
    Offers <- MCOffers
    Configured <- MCConfigured
    Directories = {tools, drafts, outside}
    FilesOf <- MCFilesOf
    Allowed = {tools, drafts}
    Injected <- MCInjected
    Starts = {i1, i2}
    Loads = {l1, l2}
    Agents = {g1}
INVARIANTS
    ToolTypeOK
    AcceptedStay
    ValidationPasses
    AgentsServeConfigured
PROPERTIES
    OnlyNamesakesDisplace
SYMMETRY MCSymmetry
