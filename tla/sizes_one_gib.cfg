SPECIFICATION Spec
CONSTANTS
    Volumes = {v1, v2}
    v1 = v1
    v2 = v2
    GiB = 4
    FieldOf <- Fields
    RequestsOf <- OneGiB
PROPERTY
    SizesAreKept
