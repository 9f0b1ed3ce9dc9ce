CONSTANTS
    v4Local = v4Local
    v4Foreign = v4Foreign
    v4Short = v4Short
    v6Local = v6Local
    v6Scoped = v6Scoped
    Name = Name
    Junk = Junk
    NULL = NULL
    ANY = ANY
    Texts <- MC_Texts
    Form <- MC_Form
    LocalTexts <- MC_LocalTexts
    Fds <- MC_Fds
SPECIFICATION Spec
INVARIANT NoLeakedSocket
