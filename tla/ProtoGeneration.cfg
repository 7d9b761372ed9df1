SPECIFICATION GenerationSpec
CONSTANTS
    Classes <- MCClasses
    Services <- MCServices
    Mro <- MCMro
    AttributeOrder <- MCAttributeOrder
    Names <- MCNames
    Declarations <- MCDeclarations
    Apps <- MCApps
    Handlers <- MCHandlers
    App <- MCApp
    Reload <- MCReload
    Silent <- MCSilent
    Nobody = "nobody"
    Absent = Absent
    MaxRegistrations = 2
    Serializers <- MCSerializers
    FieldsOf <- MCFieldsOf
    PkOf <- MCPkOf
    BaseOf <- MCBaseOf
    NoSerializer = "none"
    ActionDecl <- MCActionDecl
    SerializerOf <- MCSerializerOf
    WordsOf <- MCWordsOf
    Configs <- MCConfigs
    AppOrder <- MCAppOrder
    NoFile = NoFile
    MaxCommands <- MCMaxCommands
INVARIANT TypeOK
INVARIANT ResolvedInFamily
INVARIANT NearestDeclares
INVARIANT ReferencesResolve
INVARIANT NamesakesAgree
INVARIANT SidesHold
PROPERTY CheckCoversAll
CHECK_DEADLOCK FALSE
